---- MODULE Spec2Model ----
(***************************************************************************)
(* A model of the reconciliation pipeline of the Qualification wrapper     *)
(* (user_tools/src/spark_rapids_pytools/rapids/qualification.py):          *)
(* the grouping stage (__group_apps_by_name) and the GPU cluster reshape   *)
(* stage (__apply_gpu_cluster_reshape, __apply_non_standard_gpu_shape).    *)
(*                                                                         *)
(* A data frame is a record [cols, rows]: cols is the set of the optional  *)
(* columns the frame carries (the key columns and the cluster-shape        *)
(* column), rows the sequence of its rows in index order.  Numeric cells   *)
(* are exact rationals <<n, d>> in lowest terms with d > 0.  The code       *)
(* computes in binary floating point: the runs with binary64 = TRUE take   *)
(* the rounding error of the reshape arithmetic into account, the others   *)
(* follow the exact values.                                                *)
(***************************************************************************)
EXTENDS Integers, Sequences, FiniteSets, TLC

VARIABLES
    pc,                \* the stage the run has reached
    arg,               \* the frame object passed to the last stage, as it is now
    passed,            \* history: the content of that object when it was passed
    ret,               \* the frame returned by the last stage
    retIsArg,          \* whether the returned frame is the argument object itself
    per_row_flag,      \* the flags returned by the reshape calls so far, in order
    group_notes,       \* the notes returned by the last grouping call
    clusterShapeNote,  \* platform.ctxt['notes']['clusterShape']: <<>> or <<count>>
    raised,            \* the exception that ended the run, "" when none
    groupColumns,      \* configuration toolOutput.csv.summaryReport.groupColumns
    dropDuplicates,    \* configuration toolOutput.csv.summaryReport.dropDuplicates
    gpuClusterShapeRecommendation, \* ctxt 'gpuClusterShapeRecommendation'
    gpuClusterProxy,   \* ctxt 'gpuClusterProxy': <<>> (None) or <<workers count>>
    clusterSpecs,      \* platform configuration clusterSpecs
    binary64,          \* whether the rounding error of the floats is followed
    cluster_info_df,   \* the cluster information frame: the sequence of its rows
    platform,          \* the platform: its instance catalog and how its calls end
    clusters_per_app,  \* the dictionary _infer_cluster_per_app returned
    catalog_queries,   \* history: the lookups <<row, cores>> made in the catalog
    total_apps,        \* the apps status frame: rows [AppID, Status]
    filterApps,        \* ctxt 'filterApps': "top_candidates" or another filter
    recommended_apps,  \* the frame of the recommended apps: <<>> (None) or <<rows>>
    report_comments,   \* the comments collected for the summary
    summary,           \* the QualificationSummary object: <<>> or <<its fields>>
    report_summary,    \* what __generate_report_summary returned: <<>> or <<rows>>
    wrapper_options,   \* the arguments of the run: filterApps, gpuClusterRecommendation
    estimation,        \* the estimation model and the statistics report: how they end
    logged,            \* history: the errors the run caught and logged
    cluster_info_cols, \* the optional columns the cluster information frame carries
    cpuClusterProxy,   \* ctxt 'cpuClusterProxy': <<>> (None) or <<cluster>>
    cluster_inference_supported, \* platform.cluster_inference_supported
    cpuClusterInfoPerApp, \* ctxt 'cpuClusterInfoPerApp': <<>> (unset) or <<dictionary>>
    gpuClusterInfoPerApp, \* ctxt 'gpuClusterInfoPerApp': <<>> (unset) or <<dictionary>>
    gpu_catalog_queries \* history: the lookups <<row, cores>> of the GPU inference

vars == <<pc, arg, passed, ret, retIsArg, per_row_flag, group_notes,
          clusterShapeNote, raised, groupColumns, dropDuplicates,
          gpuClusterShapeRecommendation, gpuClusterProxy, clusterSpecs,
          binary64, cluster_info_df, platform, clusters_per_app, catalog_queries,
          total_apps, filterApps, recommended_apps, report_comments, summary,
          report_summary, wrapper_options, estimation, logged,
          cluster_info_cols, cpuClusterProxy, cluster_inference_supported,
          cpuClusterInfoPerApp, gpuClusterInfoPerApp, gpu_catalog_queries>>

\* the state of the cluster inference
inferVars == <<cluster_info_df, platform, clusters_per_app, catalog_queries>>

\* the state of the summary assembly
summaryVars == <<total_apps, filterApps, recommended_apps, report_comments,
                 summary, report_summary>>

\* the state of the steps of _process_output that precede the summary
outputVars == <<wrapper_options, estimation, logged, cluster_info_cols,
                cpuClusterProxy, cluster_inference_supported,
                cpuClusterInfoPerApp, gpuClusterInfoPerApp,
                gpu_catalog_queries>>

confVars == <<groupColumns, dropDuplicates, gpuClusterShapeRecommendation,
              gpuClusterProxy, clusterSpecs, binary64>>

-----------------------------------------------------------------------------
(* Bounds of the model. *)

\* the largest number of rows of an input frame
MaxRows == 2

\* the largest worker count of the GPU cluster
MaxWorkers == 10

\* the largest number of rows of a cluster information frame
MaxInfoRows == 2

-----------------------------------------------------------------------------
(* Exact rational arithmetic for the numeric cells. *)

RECURSIVE GCD(_, _)
GCD(a, b) == IF b = 0 THEN a ELSE GCD(b, a % b)

Abs(n) == IF n < 0 THEN -n ELSE n

Rat(n, d) ==
    LET s == IF d < 0 THEN -1 ELSE 1
        g == GCD(Abs(n), Abs(d))
    IN  <<(s * n) \div g, (s * d) \div g>>

Int2Rat(n) == <<n, 1>>

RAdd(x, y) == Rat(x[1] * y[2] + y[1] * x[2], x[2] * y[2])

RMul(x, y) == Rat(x[1] * y[1], x[2] * y[2])

\* x / y for y # 0
RDiv(x, y) == Rat(x[1] * y[2], x[2] * y[1])

RLeq(x, y) == x[1] * y[2] <= y[1] * x[2]

RIsZero(x) == x[1] = 0

\* math.ceil of a rational: the least integer >= x
Ceil(x) == -((-x[1]) \div x[2])

Max(a, b) == IF a >= b THEN a ELSE b

RECURSIVE SeqMax(_)
SeqMax(s) == IF Len(s) = 1 THEN s[1] ELSE Max(s[1], SeqMax(Tail(s)))

\* the sequence <<F(i), ..., F(n)>>
RECURSIVE MapIdx(_, _, _)
MapIdx(F(_), n, i) == IF i > n THEN <<>> ELSE <<F(i)>> \o MapIdx(F, n, i + 1)

RECURSIVE RSum(_)
RSum(s) == IF s = <<>> THEN Int2Rat(0) ELSE RAdd(s[1], RSum(Tail(s)))

-----------------------------------------------------------------------------
(* Data frames. *)

\* the configured key columns (application name, cluster id)
KeyColumns == {"App Name", "Cluster Id"}

\* local.output.processDFProps.clusterShapeCols.columnName
reshape_col == "Recommended Cluster Shape"

\* pd.Series.isna / NaN of a key cell: a missing key value
NaN == "NaN"

Row(keys, cpu, gpu, speedup, unsup, stage, perc) ==
    [keys |-> keys, AppDuration |-> cpu, EstimatedGPUDuration |-> gpu,
     EstimatedGPUSpeedup |-> speedup, UnsupportedDuration |-> unsup,
     SQLStageDurationsSum |-> stage, UnsupportedPercent |-> perc,
     ClusterShape |-> 0, AppID |-> "", Recommendation |-> "Recommended",
     SpeedupCategory |-> ""]

\* Utilities.get_valid_df_columns: the configured columns the frame carries
get_valid_df_columns(cols, df) == cols \cap df.cols

\* the cells of a row under the given key columns
KeyTuple(row, cols) == [c \in cols |-> row.keys[c]]

-----------------------------------------------------------------------------
(* The grouping stage: Qualification.__group_apps_by_name. *)

\* every row a group of its own
GroupOfSelf(rows, cols, i) == {i}

\* the rows of the group of row i under groupby(cols, dropna=False):
\* NaN key cells compare equal, so rows with missing keys form groups too
GroupOf(rows, cols, i) ==
    {j \in 1..Len(rows) : KeyTuple(rows[j], cols) = KeyTuple(rows[i], cols)}

\* the values of a column over a group
GroupValues(rows, grp, col) ==
    MapIdx(LAMBDA j : IF j \in grp THEN rows[j][col] ELSE Int2Rat(0), Len(rows), 1)

\* the aggregate 'sum' of a column over a group
AggSum(rows, grp, col) == RSum(GroupValues(rows, grp, col))

\* the aggregate 'mean' of a column over a group
AggMean(rows, grp, col) ==
    RDiv(RSum(GroupValues(rows, grp, col)), Int2Rat(Cardinality(grp)))

\* all_apps[agg_col] = all_apps.groupby(cols, dropna=False)[agg_col]
\*                             .transform('mean')
\* for every column of groupColumns.aggregate: the two durations, the stage
\* duration sum and the unsupported operators duration
TransformAgg(rows, cols) ==
    MapIdx(LAMBDA i :
             LET grp == GroupOf(rows, cols, i)
             IN  [rows[i] EXCEPT
                    !.AppDuration = AggMean(rows, grp, "AppDuration"),
                    !.EstimatedGPUDuration = AggMean(rows, grp, "EstimatedGPUDuration"),
                    !.SQLStageDurationsSum = AggMean(rows, grp, "SQLStageDurationsSum"),
                    !.UnsupportedDuration = AggMean(rows, grp, "UnsupportedDuration")],
           Len(rows), 1)

RECURSIVE KeepFirst(_, _, _)
KeepFirst(rows, cols, i) ==
    IF i > Len(rows) THEN <<>>
    ELSE LET rest == KeepFirst(rows, cols, i + 1)
         IN  IF \E j \in 1..(i - 1) :
                    KeyTuple(rows[j], cols) = KeyTuple(rows[i], cols)
             THEN rest
             ELSE <<rows[i]>> \o rest

RECURSIVE KeepLast(_, _, _)
KeepLast(rows, cols, i) ==
    IF i > Len(rows) THEN <<>>
    ELSE LET rest == KeepLast(rows, cols, i + 1)
         IN  IF \E j \in (i + 1)..Len(rows) :
                    KeyTuple(rows[j], cols) = KeyTuple(rows[i], cols)
             THEN rest
             ELSE <<rows[i]>> \o rest

\* drop_duplicates(subset=cols, keep='last')
drop_duplicates_keep_last(rows, cols) ==
    IF cols = {} THEN rows ELSE KeepLast(rows, cols, 1)

\* all_apps.drop_duplicates(subset=cols): the first row of every key tuple
\* is kept, in index order (an empty subset marks no row as a duplicate)
drop_duplicates(rows, cols) ==
    IF cols = {} THEN rows ELSE KeepFirst(rows, cols, 1)

\* what drop_duplicates does with the given subset: with at least one column
\* it returns; with subset=[] the outcome depends on the pandas build, which
\* either returns the frame with no row dropped or raises ValueError
drop_duplicates_outcomes(cols) ==
    IF cols = {} THEN {"returns", "raises"} ELSE {"returns"}

\* np.where(gpu_duration != 0, app_duration / gpu_duration, 0.0)
RecalcSpeedupZero(row) ==
    IF ~RIsZero(row.EstimatedGPUDuration)
    THEN RDiv(row.AppDuration, row.EstimatedGPUDuration)
    ELSE Int2Rat(0)

\* np.where(gpu_duration != 0, app_duration / gpu_duration, 1.0)
RecalcSpeedup(row) ==
    IF ~RIsZero(row.EstimatedGPUDuration)
    THEN RDiv(row.AppDuration, row.EstimatedGPUDuration)
    ELSE Int2Rat(1)

\* np.where(stage_sum != 0, unsupported * 100.0 / stage_sum, 0.0)
RecalcUnsupportedPercentZero(row) ==
    IF ~RIsZero(row.SQLStageDurationsSum)
    THEN RDiv(RMul(row.UnsupportedDuration, Int2Rat(100)),
              row.SQLStageDurationsSum)
    ELSE Int2Rat(0)

\* np.where(stage_sum != 0, unsupported * 100.0 / stage_sum, 100.0)
RecalcUnsupportedPercent(row) ==
    IF ~RIsZero(row.SQLStageDurationsSum)
    THEN RDiv(RMul(row.UnsupportedDuration, Int2Rat(100)),
              row.SQLStageDurationsSum)
    ELSE Int2Rat(100)

\* result_df: the copy of the deduplicated frame with both columns recomputed
RecalcRows(rows) ==
    MapIdx(LAMBDA i :
             [rows[i] EXCEPT !.EstimatedGPUSpeedup = RecalcSpeedup(rows[i]),
                             !.UnsupportedPercent = RecalcUnsupportedPercent(rows[i])],
           Len(rows), 1)

GroupNote == "Apps with the same name are grouped together and their metrics are averaged"

\* __group_apps_by_name(all_apps), called on the frame the previous stage
\* returned; from and to are the stages before and after the call
group_apps_by_name(from, to) ==
    /\ pc = from
    /\ passed' = ret
    /\ UNCHANGED <<per_row_flag, clusterShapeNote, confVars, outputVars, inferVars,
                   summaryVars>>
    /\ IF groupColumns.enabled = FALSE
       THEN \* return all_apps, notes
            /\ arg' = ret
            /\ ret' = ret
            /\ retIsArg' = TRUE
            /\ group_notes' = ""
            /\ raised' = raised
            /\ pc' = to
       ELSE LET valid_group_cols == get_valid_df_columns(groupColumns.keys, ret)
                valid_drop_cols == get_valid_df_columns(dropDuplicates, ret)
            IN  IF valid_group_cols = {}
                THEN \* groupby with an empty key list: "No group keys passed!"
                     /\ arg' = ret
                     /\ UNCHANGED <<ret, retIsArg, group_notes>>
                     /\ raised' = "ValueError"
                     /\ pc' = "raised"
                ELSE \E agg \in {TransformAgg(ret.rows, valid_group_cols)} :
                     \E subset_data \in {drop_duplicates(agg, valid_drop_cols)} :
                     \E outcome \in drop_duplicates_outcomes(valid_drop_cols) :
                     /\ arg' = [ret EXCEPT !.rows = agg]
                     /\ IF outcome = "raises"
                        THEN /\ UNCHANGED <<ret, retIsArg, group_notes>>
                             /\ raised' = "ValueError"
                             /\ pc' = "raised"
                        ELSE /\ ret' = [ret EXCEPT !.rows = RecalcRows(subset_data)]
                             /\ retIsArg' = FALSE
                             /\ group_notes' =
                                    IF Len(subset_data) # Len(ret.rows)
                                    THEN GroupNote ELSE ""
                             /\ raised' = raised
                             /\ pc' = to

GroupAppsByName == group_apps_by_name("pruned", "grouped")

GroupAppsByNameAgain == group_apps_by_name("grouped", "grouped2")

-----------------------------------------------------------------------------
(* The reshape stage: Qualification.__apply_gpu_cluster_reshape. *)

\* QualGpuClusterReshapeType.get_default()
DefaultReshapeType == "match"

\* the values of ctxt 'gpuClusterShapeRecommendation': the three members of
\* QualGpuClusterReshapeType, and None when no recommendation was selected
ReshapeTypes == {"None", "match", "cluster", "job"}

\* local.output.processDFProps.minimumWorkerCount
default_min_w_cnt == 2

\* local.output.processDFProps.gpuScaleFactor (0.80)
default_scale_factor == Rat(4, 5)

\* scale_factor_from_conf if scale_factor_from_conf else default_scale_factor
scale_f ==
    IF ~RIsZero(clusterSpecs.gpuScaleFactor)
    THEN clusterSpecs.gpuScaleFactor ELSE default_scale_factor

\* min_w_cnt_from_conf if min_w_cnt_from_conf else default_min_w_cnt
min_w_cnt ==
    IF clusterSpecs.minWorkerNodes # 0
    THEN clusterSpecs.minWorkerNodes ELSE default_min_w_cnt

\* ceil(x * 100) / 100
f_cell(x) == Rat(Ceil(RMul(x, Int2Rat(100))), 100)

\* whether a binary64 float holds the value exactly: its denominator is a
\* power of two (the magnitudes of the model are far below 2^53)
RECURSIVE IsPowerOfTwo(_)
IsPowerOfTwo(d) == d = 1 \/ (d % 2 = 0 /\ IsPowerOfTwo(d \div 2))

IsBinary64(x) == IsPowerOfTwo(x[2])

\* what ceil can add to the exact ceiling of x when x is the float result of
\* operations whose operands and exact results are the values of steps: an
\* operation whose exact result is no binary64 value is rounded, so a result
\* that is exactly an integer k can come out just above k and ceil gives
\* k + 1 (0.8 * 2.0 * 24 / 1.6 * 100 is 2400.0000000000005); a result that is
\* no integer is further from the next integer than the rounding error
CeilExcess(x, steps) ==
    IF binary64 /\ x[2] = 1 /\ \E v \in steps : ~IsBinary64(v)
    THEN {0, 1} ELSE {0}

\* the operands and the exact intermediate results of
\* scale_f * old_workers_cnt / gpu_speedup
ShapeSteps(df_row, old_workers_cnt) ==
    {scale_f, RMul(scale_f, Int2Rat(old_workers_cnt)),
     df_row.EstimatedGPUSpeedup,
     RDiv(RMul(scale_f, Int2Rat(old_workers_cnt)), df_row.EstimatedGPUSpeedup)}

\* the operands and the exact intermediate results of
\* (old_workers_cnt / row[reshape_col]) * scale_f * row[cpu_dur_col]
\*     / row[speedup_col] * 100
DurationSteps(row, old_workers_cnt) ==
    LET t1 == Rat(old_workers_cnt, row.ClusterShape)
        t2 == RMul(t1, scale_f)
        t3 == RMul(t2, row.AppDuration)
        t4 == RDiv(t3, row.EstimatedGPUSpeedup)
    IN  {scale_f, row.AppDuration, row.EstimatedGPUSpeedup, t1, t2, t3, t4}

\* (old_workers_cnt / row[reshape_col]) * scale_f * row[cpu_dur_col]
\*     / row[speedup_col], the exact value of the argument of f_cell
ScaledDuration(row, old_workers_cnt) ==
    RDiv(RMul(RMul(Rat(old_workers_cnt, row.ClusterShape), scale_f),
              row.AppDuration),
         row.EstimatedGPUSpeedup)

\* the operands and the exact intermediate results of
\* row[cpu_dur_col] / row[gpu_dur_col] * 100
SpeedupSteps(row) ==
    {row.AppDuration, row.EstimatedGPUDuration,
     RDiv(row.AppDuration, row.EstimatedGPUDuration)}

\* ceil(scale_f * old_workers_cnt / gpu_speedup), without the lower limit
CeilScaledWorkers(df_row, min_worker_cnt, old_workers_cnt) ==
    Ceil(RDiv(RMul(scale_f, Int2Rat(old_workers_cnt)),
              df_row.EstimatedGPUSpeedup))

\* max(min_worker_cnt, ceil(scale_f * old_workers_cnt / gpu_speedup)),
\* for a row whose speedup is not 0
calc_cluster_shape_col(df_row, min_worker_cnt, old_workers_cnt) ==
    Max(min_worker_cnt,
        Ceil(RDiv(RMul(scale_f, Int2Rat(old_workers_cnt)),
                  df_row.EstimatedGPUSpeedup)))

\* f_cell((old_workers_cnt / row[reshape_col]) * scale_f
\*        * row[cpu_dur_col] / row[speedup_col])
NewGpuDuration(row, old_workers_cnt) ==
    f_cell(RDiv(RMul(RMul(Rat(old_workers_cnt, row.ClusterShape), scale_f),
                     row.AppDuration),
                row.EstimatedGPUSpeedup))

\* row[cpu_dur_col] / row[gpu_dur_col], not rounded up to two decimals
NewSpeedupExact(row) == RDiv(row.AppDuration, row.EstimatedGPUDuration)

\* f_cell(row[cpu_dur_col] / row[gpu_dur_col]), for a row whose duration is not 0
NewSpeedup(row) == f_cell(RDiv(row.AppDuration, row.EstimatedGPUDuration))

\* any selected shape type counts as non-standard
AnySelectedIsNonStandard == gpuClusterShapeRecommendation # "None"

\* __recommendation_is_non_standard()
recommendation_is_non_standard ==
    IF gpuClusterShapeRecommendation # "None"
    THEN gpuClusterShapeRecommendation # DefaultReshapeType
    ELSE FALSE

\* all_apps[reshape_col].min()
MinWorkersCnt(shapes) == -SeqMax(MapIdx(LAMBDA i : -shapes[i], Len(shapes), 1))

\* all_apps[reshape_col].max()
MaxWorkersCnt(shapes) == SeqMax(shapes)

\* the columns are recomputed when the cluster-wide count equals the old one
RecalcWhenEqual(cluster_shape_t, max_workers_cnt, cluster_workers_cnt) ==
    IF cluster_shape_t = "cluster"
    THEN max_workers_cnt = cluster_workers_cnt ELSE TRUE

\* recalc_speedups_flag: True, and for the cluster shape type
\* max_workers_cnt != cluster_workers_cnt
recalc_speedups_flag(cluster_shape_t, max_workers_cnt, cluster_workers_cnt) ==
    IF cluster_shape_t = "cluster"
    THEN max_workers_cnt # cluster_workers_cnt ELSE TRUE

\* __apply_non_standard_gpu_shape(all_apps, cluster_workers_cnt, cluster_shape_t)
\* on the frame the previous stage returned
apply_non_standard_gpu_shape(cluster_workers_cnt, cluster_shape_t, to) ==
    LET rows == ret.rows
        n    == Len(rows)
    IN  IF \E i \in 1..n : RIsZero(rows[i].EstimatedGPUSpeedup)
        THEN \* calc_cluster_shape_col divides by a speedup of 0
             /\ arg' = ret
             /\ raised' = "DivisionByZero"
             /\ pc' = "raised"
             /\ UNCHANGED <<ret, retIsArg, per_row_flag, clusterShapeNote>>
        ELSE
        \E ec \in [1..n -> {0, 1}] :
        (\A i \in 1..n :
            ec[i] \in CeilExcess(
                        RDiv(RMul(scale_f, Int2Rat(cluster_workers_cnt)),
                             rows[i].EstimatedGPUSpeedup),
                        ShapeSteps(rows[i], cluster_workers_cnt))) /\
        \E cands \in {MapIdx(LAMBDA i :
                          IF ec[i] = 0
                          THEN calc_cluster_shape_col(
                                   rows[i], min_w_cnt, cluster_workers_cnt)
                          ELSE Max(min_w_cnt,
                                   ec[i] + Ceil(RDiv(RMul(scale_f,
                                                Int2Rat(cluster_workers_cnt)),
                                           rows[i].EstimatedGPUSpeedup))),
                          n, 1)} :
        \E max_workers_cnt \in {MaxWorkersCnt(cands)} :
        LET isCluster == cluster_shape_t = "cluster"
            recalc == recalc_speedups_flag(cluster_shape_t, max_workers_cnt,
                                           cluster_workers_cnt)
            newCols == ret.cols \cup {reshape_col}
        IN
        \E shaped \in {MapIdx(LAMBDA i : [rows[i] EXCEPT !.ClusterShape =
                                 IF isCluster THEN max_workers_cnt ELSE cands[i]],
                              n, 1)} :
        \E ed \in [1..n -> {0, 1}] :
        (\A i \in 1..n :
            ed[i] \in CeilExcess(
                        RMul(ScaledDuration(shaped[i], cluster_workers_cnt),
                             Int2Rat(100)),
                        DurationSteps(shaped[i], cluster_workers_cnt))) /\
        \E withDur \in {MapIdx(LAMBDA i : [shaped[i] EXCEPT !.EstimatedGPUDuration =
                                  RAdd(NewGpuDuration(shaped[i], cluster_workers_cnt),
                                       Rat(ed[i], 100))],
                               n, 1)} :
            /\ clusterShapeNote' =
                  IF isCluster THEN <<max_workers_cnt>> ELSE clusterShapeNote
            /\ IF ~recalc
               THEN \* return all_apps, False
                    /\ arg' = [cols |-> newCols, rows |-> shaped]
                    /\ ret' = arg'
                    /\ retIsArg' = TRUE
                    /\ per_row_flag' = Append(per_row_flag, FALSE)
                    /\ raised' = raised
                    /\ pc' = to
               ELSE IF \E i \in 1..n : RIsZero(withDur[i].EstimatedGPUDuration)
               THEN \* the speedup recomputation divides by a duration of 0,
                    \* after the duration column was assigned
                    /\ arg' = [cols |-> newCols, rows |-> withDur]
                    /\ raised' = "DivisionByZero"
                    /\ pc' = "raised"
                    /\ UNCHANGED <<ret, retIsArg, per_row_flag>>
               ELSE \* return update_cols_with_new_shape(...), True
                    \E es \in [1..n -> {0, 1}] :
                    /\ \A i \in 1..n :
                         es[i] \in CeilExcess(
                                     RMul(NewSpeedupExact(withDur[i]),
                                          Int2Rat(100)),
                                     SpeedupSteps(withDur[i]))
                    /\ arg' = [cols |-> newCols,
                               rows |-> MapIdx(LAMBDA i :
                                   [withDur[i] EXCEPT !.EstimatedGPUSpeedup =
                                        RAdd(NewSpeedup(withDur[i]),
                                             Rat(es[i], 100))], n, 1)]
                    /\ ret' = arg'
                    /\ retIsArg' = TRUE
                    /\ per_row_flag' = Append(per_row_flag, TRUE)
                    /\ raised' = raised
                    /\ pc' = to

\* __apply_gpu_cluster_reshape(all_apps), from and to the stages before and
\* after the call
apply_gpu_cluster_reshape(from, to) ==
    /\ pc = from
    /\ passed' = ret
    /\ UNCHANGED <<group_notes, confVars, outputVars, inferVars, summaryVars>>
    /\ IF gpuClusterProxy # <<>> /\ recommendation_is_non_standard
       THEN apply_non_standard_gpu_shape(gpuClusterProxy[1],
                                         gpuClusterShapeRecommendation, to)
       ELSE /\ arg' = ret
            /\ ret' = ret
            /\ retIsArg' = TRUE
            /\ per_row_flag' = Append(per_row_flag, FALSE)
            /\ UNCHANGED <<clusterShapeNote, raised>>
            /\ pc' = to

ApplyGpuClusterReshape == apply_gpu_cluster_reshape("grouped", "reshaped")

ApplyGpuClusterReshapeAgain == apply_gpu_cluster_reshape("reshaped", "reshaped2")

-----------------------------------------------------------------------------
(* Cluster inference: ClusterInference (common/cluster_inference.py) and    *)
(* Qualification._infer_cluster_per_app.                                   *)
(*                                                                         *)
(* A row of the cluster information frame is a record; a numeric cell is   *)
(* <<>> when it is NaN and <<v>> when it holds v.  A call ends in a record *)
(* [kind, value, queries]: kind is "returns" or "raises", value is <<>> for *)
(* None and <<v>> for v, queries are the catalog lookups the call made.    *)

\* platform.configs.get_value('clusterInference', 'defaultCpuInstances', 'driver')
defaultCpuDriver == "default-driver"

\* the instance type the catalog holds for a core count
InstanceName(cores) == "cores-" \o ToString(cores)

\* f'"{node_type}"'
Quoted(node_type) == "\"" \o node_type \o "\""

Returns(v, q) == [kind |-> "returns", value |-> v, queries |-> q]

Raises(q) == [kind |-> "raises", value |-> <<>>, queries |-> q]

\* execs_per_node * cores_per_executor, NaN when either cell is NaN
total_cores_per_node(row) ==
    IF row.NumExecutorsPerNode = <<>> \/ row.CoresPerExecutor = <<>> THEN <<>>
    ELSE <<row.NumExecutorsPerNode[1] * row.CoresPerExecutor[1]>>

\* the dictionary with the worker count one above the declared one
template_args_one_more(driver_node_type, worker_node_type, row, q) ==
    IF row.NumWorkerNodes = <<>> THEN Raises(q)
    ELSE Returns(<<[DRIVER_NODE_TYPE |-> Quoted(driver_node_type),
                    NUM_DRIVER_NODES |-> 1,
                    WORKER_NODE_TYPE |-> Quoted(worker_node_type),
                    NUM_WORKER_NODES |-> row.NumWorkerNodes[1] + 1]>>, q)

\* the dictionary _get_cluster_template_args returns; int(num_worker_nodes)
\* raises for a NaN cell
template_args(driver_node_type, worker_node_type, row, q) ==
    IF row.NumWorkerNodes = <<>> THEN Raises(q)
    ELSE Returns(<<[DRIVER_NODE_TYPE |-> Quoted(driver_node_type),
                    NUM_DRIVER_NODES |-> 1,
                    WORKER_NODE_TYPE |-> Quoted(worker_node_type),
                    NUM_WORKER_NODES |-> row.NumWorkerNodes[1]]>>, q)

\* the worker type is taken from the catalog even when the row declares one
get_cluster_template_args_catalog_only(row) ==
    LET driver_node_type == IF row.DriverNodeType = NaN
                            THEN defaultCpuDriver ELSE row.DriverNodeType
        total == total_cores_per_node(row)
    IN  IF total = <<>> THEN Returns(<<>>, {})
        ELSE IF platform.ends = "catalog raises" THEN Raises({total[1]})
        ELSE IF total[1] \notin platform.catalog THEN Returns(<<>>, {total[1]})
        ELSE template_args(driver_node_type, InstanceName(total[1]), row,
                           {total[1]})

\* ClusterInference._get_cluster_template_args(cluster_info_df)
get_cluster_template_args(row) ==
    LET driver_node_type == IF row.DriverNodeType = NaN
                            THEN defaultCpuDriver ELSE row.DriverNodeType
        total == total_cores_per_node(row)
    IN  IF row.WorkerNodeType # NaN
        THEN template_args(driver_node_type, row.WorkerNodeType, row, {})
        ELSE IF total = <<>> THEN Returns(<<>>, {})
        ELSE \* platform.get_matching_worker_node_type(total_cores_per_node)
             IF platform.ends = "catalog raises" THEN Raises({total[1]})
        ELSE IF total[1] \notin platform.catalog THEN Returns(<<>>, {total[1]})
        ELSE template_args(driver_node_type, InstanceName(total[1]), row,
                           {total[1]})

\* the body of the try block of infer_cluster
infer_cluster_try(df) ==
    IF Len(df) # 1 THEN Returns(<<>>, {})
    ELSE LET cluster_template_args == get_cluster_template_args(df[1])
             q == cluster_template_args.queries
         IN  IF cluster_template_args.kind = "raises" THEN Raises(q)
             ELSE IF cluster_template_args.value = <<>> THEN Returns(<<>>, q)
             ELSE \* platform.generate_cluster_configuration(cluster_template_args)
                  IF platform.ends = "conf raises" THEN Raises(q)
             ELSE IF platform.ends = "conf None" THEN Returns(<<>>, q)
             ELSE \* platform.load_cluster_by_prop(cluster_props_new, is_inferred=True)
                  IF platform.ends = "load raises" THEN Raises(q)
             ELSE Returns(cluster_template_args.value, q)

\* infer_cluster with the exception of the try block passed on to the caller
infer_cluster_uncaught(df) == infer_cluster_try(df)

\* ClusterInference.infer_cluster(cluster_info_df): except Exception returns None
infer_cluster(df) ==
    LET r == infer_cluster_try(df)
    IN  IF r.kind = "raises" THEN Returns(<<>>, r.queries) ELSE r

\* the App ID cells of the frame
AppIdsOf(df) == {df[i].AppID : i \in 1..Len(df)}

\* the last row of an App ID: a dictionary keeps the last value of a key
LastRowOf(df, app) ==
    CHOOSE i \in 1..Len(df) :
        /\ df[i].AppID = app
        /\ \A j \in (i + 1)..Len(df) : df[j].AppID # app

\* _infer_cluster_per_app(cluster_info_df, cluster_type) as a call: the
\* dictionary it returns and the catalog lookups <<row, cores>> it made
infer_cluster_per_app(df) ==
    LET calls == MapIdx(LAMBDA i : infer_cluster(<<df[i]>>), Len(df), 1)
        q == UNION {{<<i, t>> : t \in calls[i].queries} : i \in 1..Len(calls)}
    IN  IF \E i \in 1..Len(calls) : calls[i].kind = "raises"
        THEN Raises(q)
        ELSE Returns([app \in AppIdsOf(df) |-> calls[LastRowOf(df, app)].value],
                     q)

\* the column the GPU inference takes the executors per node from
gpus_per_node_col == "RecommendedNumGPUsPerNode"

\* cluster_info_df.drop(columns=gpu_cluster_cols, errors='ignore'), row by
\* row: the recommended worker type and worker count are the GPU columns
CpuClusterRow(row) ==
    [row EXCEPT !.RecommendedWorkerNodeType = NaN,
                !.RecommendedNumWorkerNodes = <<>>]

\* the GPU frame with the executors per node of the CPU cluster kept
GpuClusterRowKeepingExecutors(row) ==
    [row EXCEPT !.WorkerNodeType = row.RecommendedWorkerNodeType,
                !.NumWorkerNodes = row.RecommendedNumWorkerNodes,
                !.RecommendedWorkerNodeType = NaN,
                !.RecommendedNumWorkerNodes = <<>>]

\* gpu_cluster_df, row by row: the CPU columns dropped, the GPU columns
\* renamed to them, and
\* gpu_cluster_df['Num Executors Per Node']
\*     = cluster_info_df['Recommended Num GPUs Per Node']
GpuClusterRow(row) ==
    [row EXCEPT !.WorkerNodeType = row.RecommendedWorkerNodeType,
                !.NumWorkerNodes = row.RecommendedNumWorkerNodes,
                !.NumExecutorsPerNode = row.RecommendedNumGPUsPerNode,
                !.RecommendedWorkerNodeType = NaN,
                !.RecommendedNumWorkerNodes = <<>>]

\* what _infer_clusters_for_apps(cluster_info_df) leaves behind: how it ends,
\* the two context values and the catalog lookups of the two inferences
InferResult(kind, cpu, gpu, cpu_q, gpu_q) ==
    [kind |-> kind, cpu |-> cpu, gpu |-> gpu, cpu_q |-> cpu_q, gpu_q |-> gpu_q]

\* Qualification._infer_clusters_for_apps(cluster_info_df)
infer_clusters_for_apps(df) ==
    IF cpuClusterProxy # <<>> \/ ~cluster_inference_supported
    THEN \* CPU cluster is already set. Skipping cluster inference.
         InferResult("returns", cpuClusterInfoPerApp, gpuClusterInfoPerApp,
                     {}, {})
    ELSE LET cpu_cluster_df == MapIdx(LAMBDA i : CpuClusterRow(df[i]), Len(df), 1)
             cpu_clusters_per_app == infer_cluster_per_app(cpu_cluster_df)
             gpu_cluster_df == MapIdx(LAMBDA i : GpuClusterRow(df[i]), Len(df), 1)
             gpu_clusters_per_app == infer_cluster_per_app(gpu_cluster_df)
         IN  IF cpu_clusters_per_app.kind = "raises"
             THEN InferResult("raises", cpuClusterInfoPerApp,
                              gpuClusterInfoPerApp,
                              cpu_clusters_per_app.queries, {})
             ELSE IF gpus_per_node_col \notin cluster_info_cols
             THEN \* KeyError: 'Recommended Num GPUs Per Node'
                  InferResult("raises", <<cpu_clusters_per_app.value>>,
                              gpuClusterInfoPerApp,
                              cpu_clusters_per_app.queries, {})
             ELSE IF gpu_clusters_per_app.kind = "raises"
             THEN InferResult("raises", <<cpu_clusters_per_app.value>>,
                              gpuClusterInfoPerApp,
                              cpu_clusters_per_app.queries,
                              gpu_clusters_per_app.queries)
             ELSE InferResult("returns", <<cpu_clusters_per_app.value>>,
                              <<gpu_clusters_per_app.value>>,
                              cpu_clusters_per_app.queries,
                              gpu_clusters_per_app.queries)

\* the rows of df with the cluster information joined in:
\* pd.merge(df, cluster_info_df, on=['App Name', 'App ID'], how='left')
\* keeps every row of df, once per row of cluster_info_df of its application
RECURSIVE MergeLeft(_, _, _)
MergeLeft(rows, info, i) ==
    IF i > Len(rows) THEN <<>>
    ELSE LET matches == Cardinality({j \in 1..Len(info) :
                                        info[j].AppID = rows[i].AppID})
             copies == [k \in 1..Max(1, matches) |-> rows[i]]
         IN  copies \o MergeLeft(rows, info, i + 1)

\* step 2 of _process_output, operations related to cluster information: the
\* merge and _infer_clusters_for_apps in a try block whose exception is logged
ProcessClusterInformation ==
    /\ pc = "predicted"
    /\ pc' = "start"
    /\ arg' = ret
    /\ passed' = ret
    /\ retIsArg' = FALSE
    /\ ret' = [ret EXCEPT !.rows = MergeLeft(ret.rows, cluster_info_df, 1)]
    /\ IF Len(cluster_info_df) > 0
       THEN \E r \in {infer_clusters_for_apps(cluster_info_df)} :
              /\ cpuClusterInfoPerApp' = r.cpu
              /\ gpuClusterInfoPerApp' = r.gpu
              /\ catalog_queries' = r.cpu_q
              /\ gpu_catalog_queries' = r.gpu_q
              /\ logged' = IF r.kind = "raises"
                           THEN logged \cup {"cluster information"} ELSE logged
       ELSE UNCHANGED <<cpuClusterInfoPerApp, gpuClusterInfoPerApp,
                        catalog_queries, gpu_catalog_queries, logged>>
    /\ UNCHANGED <<per_row_flag, group_notes, clusterShapeNote, raised,
                   confVars, summaryVars, cluster_info_df, platform,
                   clusters_per_app, wrapper_options, estimation,
                   cluster_info_cols, cpuClusterProxy,
                   cluster_inference_supported>>

\* _infer_cluster_per_app(cluster_info_df, cluster_type):
\* {row['App ID']: infer_cluster(cluster_info_df.iloc[[index]]) for index, row ...}
InferClusterPerApp ==
    /\ pc = "infer"
    /\ \E calls \in {MapIdx(LAMBDA i : infer_cluster(<<cluster_info_df[i]>>),
                            Len(cluster_info_df), 1)} :
         /\ catalog_queries' =
                UNION {{<<i, t>> : t \in calls[i].queries} : i \in 1..Len(calls)}
         /\ IF \E i \in 1..Len(calls) : calls[i].kind = "raises"
            THEN /\ raised' = "Exception"
                 /\ pc' = "raised"
                 /\ UNCHANGED clusters_per_app
            ELSE /\ clusters_per_app' =
                        [app \in AppIdsOf(cluster_info_df) |->
                            calls[LastRowOf(cluster_info_df, app)].value]
                 /\ raised' = raised
                 /\ pc' = "inferred"
    /\ UNCHANGED <<arg, passed, ret, retIsArg, per_row_flag, group_notes,
                   clusterShapeNote, confVars, outputVars, cluster_info_df, platform,
                   summaryVars>>

-----------------------------------------------------------------------------
(* The arguments of the run and step 1 of _process_output. *)

\* the values of QualGpuClusterReshapeType
QualGpuClusterReshapeTypes == {"match", "cluster", "job"}

\* the values of QualFilterApp
QualFilterApps == {"all", "top_candidates"}

\* __process_gpu_cluster_recommendation(arg_val): the value it stores; an
\* invalid argument falls back to the default type, and without an argument
\* the default text is looked up among the filters, which gives None
process_gpu_cluster_recommendation(arg_val) ==
    IF arg_val # ""
    THEN IF arg_val \in QualGpuClusterReshapeTypes
         THEN arg_val ELSE DefaultReshapeType
    ELSE "None"

\* __process_filter_args(arg_val): the values it can store; an invalid
\* argument falls back to QualFilterApp.get_default(), one of the filters
process_filter_args(arg_val) ==
    IF arg_val \in QualFilterApps THEN {arg_val} ELSE QualFilterApps

\* Qualification._process_custom_args
ProcessCustomArgs ==
    /\ pc = "args"
    /\ pc' = "output"
    /\ gpuClusterShapeRecommendation' =
           process_gpu_cluster_recommendation(
               wrapper_options.gpuClusterRecommendation)
    /\ filterApps' \in process_filter_args(wrapper_options.filterApps)
    /\ UNCHANGED <<arg, passed, ret, retIsArg, per_row_flag, group_notes,
                   clusterShapeNote, raised, groupColumns, dropDuplicates,
                   gpuClusterProxy, clusterSpecs, binary64, inferVars,
                   outputVars, total_apps, recommended_apps, report_comments,
                   summary, report_summary>>

\* the nearest hundredth of a non-negative x, a tie to the even one:
\* astype(float).round(2)
round2(x) ==
    LET n == x[1] * 100
        q == n \div x[2]
        r == n % x[2]
    IN  IF 2 * r < x[2] THEN Rat(q, 100)
        ELSE IF 2 * r > x[2] THEN Rat(q + 1, 100)
        ELSE IF q % 2 = 0 THEN Rat(q, 100) ELSE Rat(q + 1, 100)

\* the row of result_df of a row of all_apps: the left join with the
\* predictions on the App ID, the two columns remapped from the predicted
\* ones where there is a prediction, and rounded
remap_prediction(row, predictions_df) ==
    LET found == {j \in 1..Len(predictions_df) :
                     predictions_df[j].appId = row.AppID}
    IN  IF found = {}
        THEN [row EXCEPT
                !.EstimatedGPUDuration = round2(row.EstimatedGPUDuration),
                !.EstimatedGPUSpeedup = round2(row.EstimatedGPUSpeedup)]
        ELSE LET p == predictions_df[CHOOSE j \in found : TRUE]
             IN  [row EXCEPT
                    !.EstimatedGPUDuration = round2(p.appDuration_pred),
                    !.EstimatedGPUSpeedup = round2(p.speedup)]

\* __update_apps_with_prediction_info(all_apps, estimation_model_args)
update_apps_with_prediction_info(all_apps) ==
    IF estimation.predict = "raises" THEN Raises({})
    ELSE IF estimation.predictions = <<>>
    THEN \* predictions_df.empty: return all_apps
         Returns(all_apps, {})
    ELSE Returns([all_apps EXCEPT !.rows =
                     MapIdx(LAMBDA i : remap_prediction(all_apps.rows[i],
                                                        estimation.predictions),
                            Len(all_apps.rows), 1)], {})

\* the call of the estimation model with its exception passed on
xgboost_modelling_uncaught(df) ==
    LET r == update_apps_with_prediction_info(df)
    IN  IF r.kind = "raises"
        THEN [df |-> df, logs |-> FALSE, raises |-> TRUE]
        ELSE [df |-> r.value, logs |-> FALSE, raises |-> FALSE]

\* try: df = __update_apps_with_prediction_info(df, ...)
\* except Exception: logger.error('Unable to use XGBoost estimation model ...')
xgboost_modelling(df) ==
    LET r == update_apps_with_prediction_info(df)
    IN  IF r.kind = "raises"
        THEN [df |-> df, logs |-> TRUE, raises |-> FALSE]
        ELSE [df |-> r.value, logs |-> FALSE, raises |-> FALSE]

\* step 1 of _process_output, operations related to XGboost modelling
XGBoostModelling ==
    /\ pc = "output"
    /\ arg' = ret
    /\ passed' = ret
    /\ retIsArg' = FALSE
    /\ IF ~estimation.xgboostEnabled
       THEN /\ ret' = ret
            /\ pc' = "predicted"
            /\ UNCHANGED <<logged, raised>>
       ELSE \E r \in {xgboost_modelling(ret)} :
            /\ ret' = r.df
            /\ logged' = IF r.logs THEN logged \cup {"XGBoost"} ELSE logged
            /\ raised' = IF r.raises THEN "Exception" ELSE raised
            /\ pc' = IF r.raises THEN "raised" ELSE "predicted"
    /\ UNCHANGED <<per_row_flag, group_notes, clusterShapeNote, confVars,
                   inferVars, summaryVars, wrapper_options, estimation,
                   cluster_info_cols, cpuClusterProxy,
                   cluster_inference_supported, cpuClusterInfoPerApp,
                   gpuClusterInfoPerApp, gpu_catalog_queries>>

-----------------------------------------------------------------------------
(* The summary: Qualification.__build_global_report_summary and             *)
(* QualificationSummary.  A frame that may be None is <<>> for None and     *)
(* <<rows>> for a frame; a cell of the report summary is <<count>> for a    *)
(* count and the rational <<n, d>> for a formatted float.                   *)

\* toolOutput.csv.summaryReport.recommendations.speedUp.selectedRecommendations
recommended_vals == {"Strongly Recommended", "Recommended"}

\* every row counts as recommended
get_all_apps(all_rows) == all_rows

\* __get_recommended_apps(all_rows): all_rows.loc[mask], a frame of its own
get_recommended_apps(all_rows) ==
    SelectSeq(all_rows, LAMBDA row : row.Recommendation \in recommended_vals)

\* pd.merge(df_final_result, total_apps[['Event Log', 'AppID']],
\*          left_on='App ID', right_on='AppID'): an inner join
merge_total_apps(rows, total) ==
    SelectSeq(rows, LAMBDA row :
                  \E i \in 1..Len(total) : total[i].AppID = row.AppID)

\* the sum of a column of a frame
ColumnSum(rows, col) == RSum(MapIdx(LAMBDA i : rows[i][col], Len(rows), 1))

\* QualificationSummary._has_tools_processed_apps
has_tools_processed_apps(sm) ==
    sm.tools_processed_apps # <<>> /\ sm.tools_processed_apps[1] # <<>>

\* QualificationSummary._has_gpu_recommendation
has_gpu_recommendation(sm) ==
    sm.recommended_apps # <<>> /\ sm.recommended_apps[1] # <<>>

\* QualificationSummary._get_total_durations
get_total_durations(sm) ==
    IF has_tools_processed_apps(sm)
    THEN ColumnSum(sm.tools_processed_apps[1], "AppDuration") ELSE Int2Rat(0)

\* QualificationSummary._get_total_gpu_durations
get_total_gpu_durations(sm) ==
    IF has_tools_processed_apps(sm)
    THEN ColumnSum(sm.tools_processed_apps[1], "EstimatedGPUDuration")
    ELSE Int2Rat(0)

\* QualificationSummary._get_stats_total_apps
get_stats_total_apps(sm) == Len(sm.total_apps)

\* QualificationSummary._get_stats_success_apps
get_stats_success_apps(sm) ==
    Len(SelectSeq(sm.total_apps, LAMBDA app : app.Status = "SUCCESS"))

\* QualificationSummary._get_stats_recommended_apps
get_stats_recommended_apps(sm) ==
    IF has_gpu_recommendation(sm) THEN Len(sm.recommended_apps[1]) ELSE 0

\* f'{x:.2f}' of a non-negative x: the nearest hundredth, a tie to the even one
format_float(x) ==
    LET n == x[1] * 100
        q == n \div x[2]
        r == n % x[2]
    IN  IF 2 * r < x[2] THEN Rat(q, 100)
        ELSE IF 2 * r > x[2] THEN Rat(q + 1, 100)
        ELSE IF q % 2 = 0 THEN Rat(q, 100) ELSE Rat(q + 1, 100)

SummaryRow(label, value) == [label |-> label, value |-> value]

\* QualificationSummary.__generate_report_summary
generate_report_summary(sm) ==
    LET head == << SummaryRow("Total applications", <<get_stats_total_apps(sm)>>),
                   SummaryRow("Processed applications",
                              <<get_stats_success_apps(sm)>>) >>
        recommended_apps_count == get_stats_recommended_apps(sm)
        total_apps_durations == get_total_durations(sm)
        total_gpu_durations == get_total_gpu_durations(sm)
        overall_speedup ==
            IF total_gpu_durations[1] > 0
            THEN RDiv(total_apps_durations, total_gpu_durations)
            ELSE Int2Rat(0)
    IN  IF sm.top_candidates_flag
        THEN Append(head, SummaryRow("Top candidates", <<sm.filter_apps_count>>))
        ELSE Append(head, SummaryRow("Recommended applications",
                                     <<recommended_apps_count>>))
             \o IF recommended_apps_count > 0
                THEN << SummaryRow("Overall estimated speedup",
                                   format_float(overall_speedup)) >>
                ELSE <<>>

\* QualificationSummary(total_apps=..., ...): the fields after construction
QualificationSummary(total, processed, recommended, flag, comments) ==
    [total_apps |-> total, tools_processed_apps |-> processed,
     recommended_apps |-> recommended, filter_apps_count |-> 0,
     top_candidates_flag |-> flag, comments |-> comments]

\* __build_global_report_summary up to the grouping stage: an empty all_apps
\* returns the summary of total_apps alone
CheckAllApps ==
    /\ pc = "start"
    /\ IF ret.rows = <<>>
       THEN /\ summary' = <<QualificationSummary(total_apps, <<>>, <<>>,
                                filterApps = "top_candidates", <<>>)>>
            /\ pc' = "summarized"
            /\ logged' = logged
       ELSE /\ summary' = summary
            /\ pc' = "pruned"
            /\ \* stats_report.report_qualification_stats() in a try block
               logged' = IF estimation.stats = "raises"
                         THEN logged \cup {"statistics report"} ELSE logged
    /\ UNCHANGED <<arg, passed, ret, retIsArg, per_row_flag, group_notes,
                   clusterShapeNote, raised, confVars, inferVars, total_apps,
                   filterApps, recommended_apps, report_comments,
                   report_summary, wrapper_options, estimation,
                   cluster_info_cols, cpuClusterProxy,
                   cluster_inference_supported, cpuClusterInfoPerApp,
                   gpuClusterInfoPerApp, gpu_catalog_queries>>

\* the thresholds of local.output.speedupCategories: the labels with the
\* lower limits of their speedups, in increasing order
speedupCategories ==
    << [title |-> "Not Recommended", lowerBound |-> Int2Rat(0)],
       [title |-> "Small", lowerBound |-> Rat(13, 10)],
       [title |-> "Medium", lowerBound |-> Int2Rat(2)],
       [title |-> "Large", lowerBound |-> Int2Rat(3)] >>

\* the label of a speedup: the last category whose lower limit it reaches
speedup_category(speedup) ==
    LET reached == {i \in 1..Len(speedupCategories) :
                       i = 1 \/ RLeq(speedupCategories[i].lowerBound, speedup)}
    IN  speedupCategories[CHOOSE i \in reached : \A j \in reached : j <= i].title

\* apps_grouped_df = speedup_category_ob.build_category_column(apps_grouped_df)
BuildCategoryColumn ==
    /\ pc = "grouped"
    /\ pc' = "categorized"
    /\ arg' = ret
    /\ passed' = ret
    /\ retIsArg' = FALSE
    /\ ret' = [ret EXCEPT !.rows =
                  MapIdx(LAMBDA i :
                           [ret.rows[i] EXCEPT !.SpeedupCategory =
                               speedup_category(ret.rows[i].EstimatedGPUSpeedup)],
                         Len(ret.rows), 1)]
    /\ UNCHANGED <<per_row_flag, group_notes, clusterShapeNote, raised,
                   confVars, outputVars, inferVars, summaryVars>>

\* recommended_apps = __get_recommended_apps(apps_grouped_df), and the
\* comments: the grouping note and the cluster-shape note read from the
\* platform notes at this point
GetRecommendedApps ==
    /\ pc = "categorized"
    /\ recommended_apps' = <<get_recommended_apps(ret.rows)>>
    /\ report_comments' =
           (IF group_notes # "" THEN <<group_notes>> ELSE <<>>)
           \o (IF clusterShapeNote # <<>> THEN <<clusterShapeNote>> ELSE <<>>)
    /\ pc' = "recommended"
    /\ UNCHANGED <<arg, passed, ret, retIsArg, per_row_flag, group_notes,
                   clusterShapeNote, raised, confVars, outputVars, inferVars, total_apps,
                   filterApps, summary, report_summary>>

\* apps_reshaped_df, _ = __apply_gpu_cluster_reshape(apps_grouped_df)
ReshapeGroupedApps == apply_gpu_cluster_reshape("recommended", "final")

\* the merge with total_apps and the construction of the summary
AssembleSummary ==
    /\ pc = "final"
    /\ summary' = <<QualificationSummary(total_apps,
                        <<merge_total_apps(ret.rows, total_apps)>>,
                        recommended_apps, filterApps = "top_candidates",
                        report_comments)>>
    /\ pc' = "summarized"
    /\ UNCHANGED <<arg, passed, ret, retIsArg, per_row_flag, group_notes,
                   clusterShapeNote, raised, confVars, outputVars, inferVars, total_apps,
                   filterApps, recommended_apps, report_comments,
                   report_summary>>

\* the numbers of rows df_pprinter can return for a frame: the top candidates
\* filter keeps any number of its rows, the plain layout all of them
PrettyDfLengths(rows) ==
    IF filterApps = "top_candidates" THEN 0..Len(rows) ELSE {Len(rows)}

\* the count is stored and the recommended apps are dropped
set_count_drop_recommended(sm, len_pretty_df) ==
    [sm EXCEPT !.filter_apps_count = len_pretty_df, !.recommended_apps = <<>>]

\* self.filter_apps_count = len(pretty_df)
set_filter_apps_count(sm, len_pretty_df) ==
    [sm EXCEPT !.filter_apps_count = len_pretty_df]

\* QualificationSummary.generate_report, from and to the stages before and
\* after the call
generate_report(from, to) ==
    /\ pc = from
    /\ pc' = to
    /\ IF summary[1].total_apps = <<>>
       THEN \* the tool did not generate any valid rows
            UNCHANGED <<summary, report_summary>>
       ELSE \E len_pretty_df \in
                 IF get_stats_success_apps(summary[1]) > 0
                        /\ has_tools_processed_apps(summary[1])
                 THEN PrettyDfLengths(summary[1].tools_processed_apps[1])
                 ELSE {summary[1].filter_apps_count} :
            /\ summary' = <<set_filter_apps_count(summary[1], len_pretty_df)>>
            /\ report_summary' = <<generate_report_summary(summary'[1])>>
    /\ UNCHANGED <<arg, passed, ret, retIsArg, per_row_flag, group_notes,
                   clusterShapeNote, raised, confVars, outputVars, inferVars, total_apps,
                   filterApps, recommended_apps, report_comments>>

GenerateReport == generate_report("summarized", "reported")

\* the report generated once more from the same summary
GenerateReportAgain == generate_report("reported", "reported2")

-----------------------------------------------------------------------------
(* Initial states and specifications. *)

\* the key cells of the input rows: two names, a present and a missing id
KeyCells == {[c \in KeyColumns |-> IF c = "App Name" THEN nm ELSE id] :
                nm \in {"a", "b"}, id \in {"c1", NaN}}

\* the configurations of the grouping stage: the shipped one (group and
\* deduplicate by the same keys), coarser and finer group keys, and disabled
GroupConfigs ==
    { <<[enabled |-> TRUE, keys |-> KeyColumns], KeyColumns>>,
      <<[enabled |-> TRUE, keys |-> {"App Name"}], KeyColumns>>,
      <<[enabled |-> TRUE, keys |-> KeyColumns], {"App Name"}>>,
      <<[enabled |-> FALSE, keys |-> KeyColumns], KeyColumns>> }

\* the state at the call of the grouping stage on the frame df
Start(df) ==
    /\ pc = "pruned"
    /\ ret = df
    /\ arg = df
    /\ passed = df
    /\ retIsArg = FALSE
    /\ per_row_flag = <<>>
    /\ group_notes = ""
    /\ clusterShapeNote = <<>>
    /\ raised = ""

\* the rows of the grouping runs: every key, durations with a slowdown and
\* a zero, the stage columns fixed
GroupRows ==
    { Row(k, Int2Rat(cpu), Int2Rat(gpu), Int2Rat(1), Int2Rat(30), Int2Rat(60),
          Int2Rat(0)) :
        k \in KeyCells, cpu \in {100, 200}, gpu \in {0, 50, 400} }

\* the rows of the percentage runs: every key, the stage columns varied
PercentRows ==
    { Row(k, Int2Rat(100), Int2Rat(50), Int2Rat(1), Int2Rat(u), Int2Rat(s),
          Int2Rat(0)) :
        k \in KeyCells, u \in {0, 30}, s \in {0, 60} }

NoReshape ==
    /\ gpuClusterShapeRecommendation = "None"
    /\ gpuClusterProxy = <<>>
    /\ clusterSpecs = [minWorkerNodes |-> 0, gpuScaleFactor |-> Int2Rat(0)]
    /\ binary64 = FALSE

\* no summary was assembled
NoSummary ==
    /\ total_apps = <<>>
    /\ filterApps = "None"
    /\ recommended_apps = <<>>
    /\ report_comments = <<>>
    /\ summary = <<>>
    /\ report_summary = <<>>

\* the steps of _process_output that precede the summary are left out
NoOutput ==
    /\ wrapper_options = [filterApps |-> "", gpuClusterRecommendation |-> ""]
    /\ estimation = [xgboostEnabled |-> FALSE, predict |-> "returns",
                     predictions |-> <<>>, stats |-> "returns"]
    /\ logged = {}
    /\ cluster_info_cols = {}
    /\ cpuClusterProxy = <<>>
    /\ cluster_inference_supported = TRUE
    /\ cpuClusterInfoPerApp = <<>>
    /\ gpuClusterInfoPerApp = <<>>
    /\ gpu_catalog_queries = {}

\* no cluster information was read and no cluster was inferred
NoInference ==
    /\ cluster_info_df = <<>>
    /\ platform = [catalog |-> {}, ends |-> "ok"]
    /\ clusters_per_app = <<>>
    /\ catalog_queries = {}

InitGroup ==
    /\ \E n \in 1..MaxRows : \E r \in [1..n -> GroupRows \cup PercentRows] :
           Start([cols |-> KeyColumns, rows |-> r])
    /\ \E c \in GroupConfigs : groupColumns = c[1] /\ dropDuplicates = c[2]
    /\ NoReshape
    /\ NoInference
    /\ NoSummary
    /\ NoOutput

\* the rows of the missing-column runs: every key, the durations fixed
KeyRows ==
    { Row(k, Int2Rat(100), Int2Rat(50), Int2Rat(1), Int2Rat(30), Int2Rat(60),
          Int2Rat(0)) : k \in KeyCells }

\* input frames that carry any subset of the configured key columns
InitKeys ==
    /\ \E n \in 1..MaxRows : \E r \in [1..n -> KeyRows] :
       \E cols \in SUBSET KeyColumns :
           Start([cols |-> cols, rows |-> r])
    /\ \E c \in GroupConfigs : groupColumns = c[1] /\ dropDuplicates = c[2]
    /\ NoReshape
    /\ NoInference
    /\ NoSummary
    /\ NoOutput

NextGroup == GroupAppsByName \/ GroupAppsByNameAgain

\* the grouping stage, applied to an input frame and again to its result
SpecGroup == InitGroup /\ [][NextGroup]_vars

\* the grouping stage on frames of older and newer schemas
SpecKeys == InitKeys /\ [][NextGroup]_vars

\* the durations (App Duration, Estimated GPU Duration) of the reshape runs
ReshapeCells == {0, 100} \X {0, 50, 80, 200}

\* the rows of the reshape runs: one application per row
ReshapeRow(i, cpu, gpu) ==
    Row([c \in KeyColumns |-> IF c = "App Name" THEN ToString(i) ELSE "c1"],
        Int2Rat(cpu), Int2Rat(gpu), Int2Rat(1), Int2Rat(30), Int2Rat(60),
        Int2Rat(0))

InitReshape ==
    /\ \E n \in 1..MaxRows : \E r \in [1..n -> ReshapeCells] :
           Start([cols |-> KeyColumns,
                  rows |-> [i \in 1..n |-> ReshapeRow(i, r[i][1], r[i][2])]])
    /\ groupColumns = [enabled |-> TRUE, keys |-> KeyColumns]
    /\ dropDuplicates = KeyColumns
    /\ gpuClusterShapeRecommendation \in ReshapeTypes
    /\ gpuClusterProxy \in {<<>>} \cup {<<w>> : w \in 1..MaxWorkers}
    /\ clusterSpecs \in [minWorkerNodes : {0, 5},
                         gpuScaleFactor : {Int2Rat(0), Int2Rat(1)}]
    /\ binary64 = FALSE
    /\ NoInference
    /\ NoSummary
    /\ NoOutput

NextReshape ==
    \/ GroupAppsByName
    \/ ApplyGpuClusterReshape
    \/ ApplyGpuClusterReshapeAgain

\* the grouping stage followed by the reshape stage, applied once and again
SpecReshape == InitReshape /\ [][NextReshape]_vars

\* the durations (App Duration, Estimated GPU Duration) of the binary64 runs:
\* speedups of 1.6, 1.5 and 0.8 and their doubles
FloatCells == {24, 48} \X {15, 16, 30}

\* the reshape runs in which the rounding error of the floats is followed
InitFloat ==
    /\ \E n \in 1..MaxRows : \E r \in [1..n -> FloatCells] :
           Start([cols |-> KeyColumns,
                  rows |-> [i \in 1..n |-> ReshapeRow(i, r[i][1], r[i][2])]])
    /\ groupColumns = [enabled |-> TRUE, keys |-> KeyColumns]
    /\ dropDuplicates = KeyColumns
    /\ gpuClusterShapeRecommendation \in ReshapeTypes
    /\ gpuClusterProxy \in {<<>>} \cup {<<w>> : w \in 1..MaxWorkers}
    /\ clusterSpecs \in [minWorkerNodes : {0, 5},
                         gpuScaleFactor : {Int2Rat(0), Int2Rat(1)}]
    /\ binary64 = TRUE
    /\ NoInference
    /\ NoSummary
    /\ NoOutput

\* the grouping stage followed by the reshape stage, in binary64 arithmetic
SpecFloat == InitFloat /\ [][NextReshape]_vars

\* the rows of the cluster information frame: the driver type declared or
\* not; the worker type declared, or left to the catalog with 8 cores, with
\* 16 cores, or with an unknown core count; the worker count present or not
InfoCells ==
    {NaN, "d1"}
    \X { <<"w1", <<>>, <<>>>>, <<NaN, <<4>>, <<2>>>>, <<NaN, <<4>>, <<4>>>>,
         <<NaN, <<>>, <<2>>>> }
    \X { <<>>, <<0>>, <<3>> }

InfoRow(app, cell) ==
    [AppID |-> app, DriverNodeType |-> cell[1], WorkerNodeType |-> cell[2][1],
     CoresPerExecutor |-> cell[2][2], NumExecutorsPerNode |-> cell[2][3],
     NumWorkerNodes |-> cell[3], RecommendedWorkerNodeType |-> NaN,
     RecommendedNumWorkerNodes |-> <<>>, RecommendedNumGPUsPerNode |-> <<>>]

\* the platforms: the catalog with or without an 8-core instance, and each
\* way the calls into the platform can end
Platforms ==
    [catalog : {{}, {8}},
     ends : {"ok", "catalog raises", "conf None", "conf raises", "load raises"}]

\* a frame of one row per application, or of rows of one application
InitInfer ==
    /\ \E n \in 1..MaxInfoRows : \E r \in [1..n -> InfoCells] :
       \E same \in BOOLEAN :
           cluster_info_df =
               [i \in 1..n |->
                   InfoRow(IF same THEN "app-1" ELSE "app-" \o ToString(i), r[i])]
    /\ platform \in Platforms
    /\ clusters_per_app = <<>>
    /\ catalog_queries = {}
    /\ pc = "infer"
    /\ \E df \in {[cols |-> {}, rows |-> <<>>]} :
           arg = df /\ passed = df /\ ret = df
    /\ retIsArg = FALSE
    /\ per_row_flag = <<>>
    /\ group_notes = ""
    /\ clusterShapeNote = <<>>
    /\ raised = ""
    /\ groupColumns = [enabled |-> FALSE, keys |-> KeyColumns]
    /\ dropDuplicates = KeyColumns
    /\ NoReshape
    /\ NoSummary
    /\ NoOutput

NextInfer == InferClusterPerApp

\* the cells of the rows of the cluster information step: the worker type
\* declared, or 4 cores per executor with 2 or 4 executors per node; the
\* recommended worker type declared or not, with 1, 2 or no GPUs per node
ClusterCells ==
    { <<"w1", <<>>, <<>>>>, <<NaN, <<4>>, <<2>>>>, <<NaN, <<4>>, <<4>>>> }
    \X { <<NaN, <<1>>>>, <<NaN, <<2>>>>, <<"g1", <<1>>>>, <<NaN, <<>>>> }

ClusterRow(app, cell) ==
    [InfoRow(app, <<NaN, cell[1], <<3>>>>) EXCEPT
        !.RecommendedWorkerNodeType = cell[2][1],
        !.RecommendedNumWorkerNodes = <<3>>,
        !.RecommendedNumGPUsPerNode = cell[2][2]]

\* the cluster information frames: one row per application or rows of one
\* application, with or without the column of the GPUs per node
ClusterFrames(n) ==
    /\ \E r \in [1..n -> ClusterCells] : \E same \in BOOLEAN :
           cluster_info_df =
               [i \in 1..n |->
                   ClusterRow(IF same THEN "app-1" ELSE "app-" \o ToString(i),
                              r[i])]
    /\ cluster_info_cols \in {{}, {gpus_per_node_col}}
    /\ cluster_info_cols = {} =>
           \A i \in 1..n : cluster_info_df[i].RecommendedNumGPUsPerNode = <<>>

\* the state at the cluster information step of _process_output
InitClusters ==
    /\ \E n \in 1..MaxInfoRows : ClusterFrames(n)
    /\ platform \in [catalog : {{}, {8}}, ends : {"ok", "conf raises"}]
    /\ \E c \in {<<<<>>, TRUE>>, <<<<"cluster">>, TRUE>>, <<<<>>, FALSE>>} :
           cpuClusterProxy = c[1] /\ cluster_inference_supported = c[2]
    /\ clusters_per_app = <<>>
    /\ catalog_queries = {}
    /\ pc = "predicted"
    /\ \E df \in {[cols |-> {}, rows |-> <<>>]} :
           arg = df /\ passed = df /\ ret = df
    /\ retIsArg = FALSE
    /\ per_row_flag = <<>>
    /\ group_notes = ""
    /\ clusterShapeNote = <<>>
    /\ raised = ""
    /\ groupColumns = [enabled |-> FALSE, keys |-> KeyColumns]
    /\ dropDuplicates = KeyColumns
    /\ NoReshape
    /\ NoSummary
    /\ wrapper_options = [filterApps |-> "", gpuClusterRecommendation |-> ""]
    /\ estimation = [xgboostEnabled |-> FALSE, predict |-> "returns",
                     predictions |-> <<>>, stats |-> "returns"]
    /\ logged = {}
    /\ cpuClusterInfoPerApp = <<>>
    /\ gpuClusterInfoPerApp = <<>>
    /\ gpu_catalog_queries = {}

NextClusters == ProcessClusterInformation

\* the cluster information step of _process_output
SpecClusters == InitClusters /\ [][NextClusters]_vars

\* the inference of one cluster per row of the cluster information frame
SpecInfer == InitInfer /\ [][NextInfer]_vars

\* the cells of the summary runs: the durations and the recommendation
SummaryCells ==
    {<<100, 50>>, <<100, 200>>, <<0, 0>>} \X {"Recommended", "Not Recommended"}

AppIdOf(i) == "app-" \o ToString(i)

\* the rows of the summary runs: one application per row
SummaryRowOf(i, cell) ==
    [ReshapeRow(i, cell[1][1], cell[1][2]) EXCEPT
        !.AppID = AppIdOf(i), !.Recommendation = cell[2]]

\* the status of an application in the apps status frame, or no row for it
StatusCells == {"SUCCESS", "FAILURE", "absent"}

\* the apps status frame of the given cells, in the order of the App IDs
RECURSIVE TotalApps(_, _)
TotalApps(cells, i) ==
    IF i > Len(cells) THEN <<>>
    ELSE (IF cells[i] = "absent" THEN <<>>
          ELSE <<[AppID |-> AppIdOf(i), Status |-> cells[i]]>>)
         \o TotalApps(cells, i + 1)

\* an all_apps frame of up to MaxRows rows, empty included, an apps status
\* frame, the filter and the cluster shape recommendation
InitSummary ==
    /\ \E n \in 0..MaxRows : \E r \in [1..n -> SummaryCells] :
       \E df \in {[cols |-> KeyColumns,
                   rows |-> [i \in 1..n |-> SummaryRowOf(i, r[i])]]} :
           arg = df /\ passed = df /\ ret = df
    /\ \E st \in [1..MaxRows -> StatusCells] : total_apps = TotalApps(st, 1)
    /\ filterApps \in {"top_candidates", "all"}
    /\ \E shape \in {<<"None", <<>>>>, <<"cluster", <<10>>>>, <<"job", <<10>>>>} :
           /\ gpuClusterShapeRecommendation = shape[1]
           /\ gpuClusterProxy = shape[2]
    /\ clusterSpecs = [minWorkerNodes |-> 0, gpuScaleFactor |-> Int2Rat(0)]
    /\ binary64 = FALSE
    /\ groupColumns = [enabled |-> TRUE, keys |-> KeyColumns]
    /\ dropDuplicates = KeyColumns
    /\ pc = "start"
    /\ retIsArg = FALSE
    /\ per_row_flag = <<>>
    /\ group_notes = ""
    /\ clusterShapeNote = <<>>
    /\ raised = ""
    /\ recommended_apps = <<>>
    /\ report_comments = <<>>
    /\ summary = <<>>
    /\ report_summary = <<>>
    /\ NoInference
    /\ NoOutput

NextSummary ==
    \/ CheckAllApps
    \/ GroupAppsByName
    \/ BuildCategoryColumn
    \/ GetRecommendedApps
    \/ ReshapeGroupedApps
    \/ AssembleSummary
    \/ GenerateReport
    \/ GenerateReportAgain

\* __build_global_report_summary followed by generate_report
SpecSummary == InitSummary /\ [][NextSummary]_vars

\* the cells of the rows of the whole runs
OutputCells ==
    { <<<<100, 50>>, "Recommended">>, <<<<100, 50>>, "Not Recommended">>,
      <<<<100, 200>>, "Not Recommended">> }

\* the arguments of a run: valid, invalid and missing ones
WrapperOptions ==
    [filterApps : {"all", "top_candidates", "bogus"},
     gpuClusterRecommendation : {"", "bogus", "match", "cluster", "job"}]

\* the predictions of the estimation model for the first application
Predictions ==
    <<[appId |-> AppIdOf(1), appDuration_pred |-> Int2Rat(40),
       speedup |-> Rat(5, 2)]>>

\* the estimation model switched off, raising, returning no predictions or
\* returning some, and the statistics report returning or raising
Estimations ==
    { [xgboostEnabled |-> e[1], predict |-> e[2], predictions |-> e[3],
       stats |-> st] :
        e \in { <<FALSE, "returns", <<>>>>, <<TRUE, "raises", <<>>>>,
                <<TRUE, "returns", <<>>>>, <<TRUE, "returns", Predictions>> },
        st \in {"returns", "raises"} }

\* a run from the processing of its arguments: the summary report the tool
\* wrote, the cluster information of no or of the first application, and
\* no or a GPU cluster of 10 workers
InitOutput ==
    /\ \E n \in 0..MaxRows : \E r \in [1..n -> OutputCells] :
       \E df \in {[cols |-> KeyColumns,
                   rows |-> [i \in 1..n |-> SummaryRowOf(i, r[i])]]} :
           arg = df /\ passed = df /\ ret = df
    /\ total_apps = TotalApps([i \in 1..MaxRows |-> "SUCCESS"], 1)
    /\ wrapper_options \in WrapperOptions
    /\ estimation \in Estimations
    /\ cluster_info_df \in
           {<<>>, <<ClusterRow(AppIdOf(1), <<<<NaN, <<4>>, <<4>>>>,
                                            <<NaN, <<2>>>>>>)>>}
    /\ cluster_info_cols = {gpus_per_node_col}
    /\ platform = [catalog |-> {8}, ends |-> "ok"]
    /\ gpuClusterProxy \in {<<>>, <<10>>}
    /\ gpuClusterShapeRecommendation = "None"
    /\ filterApps = "None"
    /\ clusterSpecs = [minWorkerNodes |-> 0, gpuScaleFactor |-> Int2Rat(0)]
    /\ binary64 = FALSE
    /\ groupColumns = [enabled |-> TRUE, keys |-> KeyColumns]
    /\ dropDuplicates = KeyColumns
    /\ pc = "args"
    /\ retIsArg = FALSE
    /\ per_row_flag = <<>>
    /\ group_notes = ""
    /\ clusterShapeNote = <<>>
    /\ raised = ""
    /\ recommended_apps = <<>>
    /\ report_comments = <<>>
    /\ summary = <<>>
    /\ report_summary = <<>>
    /\ clusters_per_app = <<>>
    /\ catalog_queries = {}
    /\ logged = {}
    /\ cpuClusterProxy = <<>>
    /\ cluster_inference_supported = TRUE
    /\ cpuClusterInfoPerApp = <<>>
    /\ gpuClusterInfoPerApp = <<>>
    /\ gpu_catalog_queries = {}

NextOutput ==
    \/ ProcessCustomArgs
    \/ XGBoostModelling
    \/ ProcessClusterInformation
    \/ CheckAllApps
    \/ GroupAppsByName
    \/ BuildCategoryColumn
    \/ GetRecommendedApps
    \/ ReshapeGroupedApps
    \/ AssembleSummary
    \/ GenerateReport

\* a run of the wrapper: _process_custom_args, then _process_output
SpecOutput == InitOutput /\ [][NextOutput]_vars

-----------------------------------------------------------------------------
(* Properties of the reshape stage, checked under SpecReshape. *)

RGeqOne(x) == RLeq(Int2Rat(1), x)

\* the flag returned by the last reshape call
LastFlag == per_row_flag[Len(per_row_flag)]

\* the non-standard reshape was applied by the last reshape call
NonStandardApplied == gpuClusterProxy # <<>> /\ recommendation_is_non_standard

\* the candidate worker counts of the rows the last reshape call was given
Candidate(i) ==
    calc_cluster_shape_col(passed.rows[i], min_w_cnt, gpuClusterProxy[1])

\* C1: for every row with a declared worker count > 0 and a speedup >= 1.0,
\* the candidate worker count the reshape computes for the row (the value of
\* the cluster-shape column under the per-job shape type) is >= min_workers.
C1_CandidateAtLeastMin ==
    (pc = "reshaped" /\ gpuClusterProxy # <<>>
        /\ gpuClusterShapeRecommendation = "job" /\ gpuClusterProxy[1] > 0)
    => \A i \in 1..Len(ret.rows) :
          RGeqOne(passed.rows[i].EstimatedGPUSpeedup)
          => ret.rows[i].ClusterShape >= min_w_cnt

\* a per-job reshape in which the scaled count of a row lies below min_workers
\* and the row carries min_workers
C1_Witness ==
    /\ pc = "reshaped" /\ gpuClusterProxy # <<>>
    /\ gpuClusterShapeRecommendation = "job"
    /\ \E i \in 1..Len(ret.rows) :
          /\ RGeqOne(passed.rows[i].EstimatedGPUSpeedup)
          /\ Ceil(RDiv(RMul(scale_f, Int2Rat(gpuClusterProxy[1])),
                       passed.rows[i].EstimatedGPUSpeedup)) < min_w_cnt
          /\ ret.rows[i].ClusterShape = min_w_cnt

\* C2: under the per-cluster shape type, after the reshape every row carries
\* the same worker count, the maximum of the per-job candidates of all rows;
\* one note naming that count is recorded; and the returned flag is True
\* exactly when that maximum differs from the declared worker count.
C2_ClusterUniformMax ==
    (pc = "reshaped" /\ gpuClusterProxy # <<>>
        /\ gpuClusterShapeRecommendation = "cluster")
    => \E m \in {Candidate(j) : j \in 1..Len(passed.rows)} :
          /\ \A j \in 1..Len(passed.rows) : Candidate(j) <= m
          /\ \A i \in 1..Len(ret.rows) : ret.rows[i].ClusterShape = m
          /\ reshape_col \in ret.cols
          /\ clusterShapeNote = <<m>>
          /\ LastFlag = (m # gpuClusterProxy[1])

\* declared count 10, two rows with candidates 4 and 7: a uniform 7, the flag
\* True and the note naming 7
C2_Witness ==
    /\ pc = "reshaped" /\ gpuClusterProxy = <<10>>
    /\ gpuClusterShapeRecommendation = "cluster"
    /\ Len(passed.rows) = 2
    /\ Candidate(1) = 4 /\ Candidate(2) = 7
    /\ \A i \in 1..2 : ret.rows[i].ClusterShape = 7
    /\ LastFlag = TRUE
    /\ clusterShapeNote = <<7>>

\* C3, as claimed: a second per-cluster reshape with the same parameters
\* leaves the table of the first one unchanged (worker count, Estimated GPU
\* Duration and Estimated GPU Speedup of every row).
C3_SecondPassUnchanged ==
    (pc = "reshaped2" /\ gpuClusterProxy # <<>>
        /\ gpuClusterShapeRecommendation = "cluster")
    => ret = passed

\* C3, amended: a second per-cluster reshape with the same parameters leaves
\* the table unchanged and returns False when the first one chose the
\* declared worker count (the case in which the first one returns False).
C3_SecondPassUnchangedWhenCountKept ==
    (pc = "reshaped2" /\ gpuClusterProxy # <<>>
        /\ gpuClusterShapeRecommendation = "cluster"
        /\ \A i \in 1..Len(passed.rows) :
              passed.rows[i].ClusterShape = gpuClusterProxy[1])
    => /\ ret = passed
       /\ per_row_flag = <<FALSE, FALSE>>

\* a second per-cluster reshape after a first one that kept the declared
\* count, on rows whose durations the recomputation would change
C3_Witness ==
    /\ pc = "reshaped2" /\ gpuClusterProxy # <<>>
    /\ gpuClusterShapeRecommendation = "cluster"
    /\ \A i \in 1..Len(passed.rows) :
          passed.rows[i].ClusterShape = gpuClusterProxy[1]
    /\ \E i \in 1..Len(passed.rows) :
          NewGpuDuration(passed.rows[i], gpuClusterProxy[1])
              # passed.rows[i].EstimatedGPUDuration
    /\ ret = passed

\* C5: Estimated GPU Speedup is >= 1.0 in every row of every table the
\* grouping stage and the reshape stage produce.
C5_SpeedupAtLeastOne ==
    pc \in {"grouped", "reshaped"}
    => \A i \in 1..Len(ret.rows) : RGeqOne(ret.rows[i].EstimatedGPUSpeedup)

\* C8: the reshape recomputation never divides by zero: when every speedup it
\* is given is >= 1.0, a recomputed Estimated GPU Duration of 0 yields the
\* neutral speedup and the reshape does not raise.
C8_ReshapeNeverDividesByZero ==
    (raised = "DivisionByZero"
        /\ \A i \in 1..Len(passed.rows) :
              RGeqOne(passed.rows[i].EstimatedGPUSpeedup))
    => FALSE

\* C9: the reshape returns a full copy and never mutates its input: after a
\* per-job or per-cluster reshape the frame passed in has the columns and the
\* values it had at the call, and the returned frame is another object.
C9_InputNotMutated ==
    (pc = "reshaped" /\ NonStandardApplied)
    => (arg = passed /\ ~retIsArg)

C10_StandardShapeUntouched ==
    (gpuClusterProxy = <<>>
        \/ gpuClusterShapeRecommendation \in {"None", DefaultReshapeType})
    => /\ raised = ""
       /\ clusterShapeNote = <<>>
       /\ pc = "reshaped"
          => (ret = passed /\ arg = passed /\ per_row_flag = <<FALSE>>
              /\ reshape_col \notin ret.cols)

\* the default shape type with a GPU cluster whose per-job candidate differs
\* from the declared count: a reshape would have changed the table
C10_Witness ==
    /\ pc = "reshaped" /\ gpuClusterProxy # <<>>
    /\ gpuClusterShapeRecommendation = DefaultReshapeType
    /\ ~RIsZero(passed.rows[1].EstimatedGPUSpeedup)
    /\ Candidate(1) # gpuClusterProxy[1]
    /\ ret = passed

-----------------------------------------------------------------------------
(* Properties of the grouping stage, checked under SpecGroup. *)

\* C4: grouping is idempotent: the grouping stage applied to a table that
\* the grouping stage produced returns the same rows with the same values.
C4_GroupingIdempotent ==
    pc = "grouped2" => ret = passed

\* a second grouping of a table in which two surviving rows share a group
C4_Witness ==
    /\ pc = "grouped2" /\ groupColumns.enabled
    /\ \E i, j \in 1..Len(passed.rows) :
          /\ i # j
          /\ j \in GroupOf(passed.rows, groupColumns.keys, i)
          /\ passed.rows[i].AppDuration # Int2Rat(0)
    /\ ret = passed

\* C6: in the output of the grouping stage, a row whose Estimated GPU Duration
\* is 0 has the recomputed Estimated GPU Speedup exactly 1.0, and any other
\* row has App Duration / Estimated GPU Duration.
C6_SpeedupZeroGuard ==
    (pc \in {"grouped", "grouped2"} /\ groupColumns.enabled)
    => \A i \in 1..Len(ret.rows) :
          LET row == ret.rows[i]
          IN  IF row.EstimatedGPUDuration = Int2Rat(0)
              THEN row.EstimatedGPUSpeedup = Int2Rat(1)
              ELSE RMul(row.EstimatedGPUSpeedup, row.EstimatedGPUDuration)
                     = row.AppDuration

\* a grouped row with Estimated GPU Duration 0, a positive App Duration and
\* the speedup 1.0
C6_Witness ==
    /\ pc = "grouped" /\ groupColumns.enabled
    /\ \E i \in 1..Len(ret.rows) :
          /\ ret.rows[i].EstimatedGPUDuration = Int2Rat(0)
          /\ ret.rows[i].AppDuration # Int2Rat(0)
          /\ ret.rows[i].EstimatedGPUSpeedup = Int2Rat(1)

\* C7: in the output of the grouping stage, a row whose SQL Stage Durations
\* Sum is 0 has the unsupported-operator percentage exactly 100.0, and any
\* other row has unsupported duration * 100 / stage duration sum.
C7_PercentZeroGuard ==
    (pc \in {"grouped", "grouped2"} /\ groupColumns.enabled)
    => \A i \in 1..Len(ret.rows) :
          LET row == ret.rows[i]
          IN  IF row.SQLStageDurationsSum = Int2Rat(0)
              THEN row.UnsupportedPercent = Int2Rat(100)
              ELSE RMul(row.UnsupportedPercent, row.SQLStageDurationsSum)
                     = RMul(row.UnsupportedDuration, Int2Rat(100))

\* a grouped row with SQL Stage Durations Sum 0 and the percentage 100.0,
\* beside a row with a positive sum and a percentage below 100.0
C7_Witness ==
    /\ pc = "grouped" /\ groupColumns.enabled
    /\ \E i, j \in 1..Len(ret.rows) :
          /\ ret.rows[i].SQLStageDurationsSum = Int2Rat(0)
          /\ ret.rows[i].UnsupportedPercent = Int2Rat(100)
          /\ ret.rows[j].SQLStageDurationsSum # Int2Rat(0)
          /\ ret.rows[j].UnsupportedPercent = Int2Rat(50)

-----------------------------------------------------------------------------
(* Properties of the grouping stage on frames that lack configured key      *)
(* columns, checked under SpecKeys.                                        *)

\* C12: the grouping stage never raises because of configured keys that are
\* absent from the input table: absent group keys and absent dedup keys are
\* dropped from the key set and grouping proceeds, also when every
\* configured group key is absent.
C12_GroupingNeverRaises == raised = ""

-----------------------------------------------------------------------------
(* Deduplication, checked under SpecGroup. *)

\* the indices of the first occurrences of the dedup-key tuples of the frame
\* the grouping stage was given
FirstOccurrences ==
    {i \in 1..Len(passed.rows) :
        \A j \in 1..(i - 1) :
            KeyTuple(passed.rows[j], dropDuplicates)
                # KeyTuple(passed.rows[i], dropDuplicates)}

\* C13: after grouping exactly one row survives per distinct dedup-key tuple
\* of the input, namely its first occurrence in input order (rows with
\* missing key values count as rows of their own tuple and are not dropped),
\* and the stage returns its grouping note exactly when the row count was
\* reduced.
C13_OneRowPerDedupKey ==
    (pc = "grouped" /\ groupColumns.enabled)
    => /\ Len(ret.rows) = Cardinality(FirstOccurrences)
       /\ \A i \in FirstOccurrences :
            LET k == Cardinality({j \in FirstOccurrences : j <= i})
            IN  ret.rows[k].keys = passed.rows[i].keys
       /\ (group_notes = GroupNote) <=> (Len(ret.rows) < Len(passed.rows))
       /\ (group_notes = "") <=> (Len(ret.rows) = Len(passed.rows))

\* two rows of one application name, the first with a missing cluster id,
\* deduplicated by name: the first row survives and the note is returned
C13_Witness ==
    /\ pc = "grouped" /\ groupColumns.enabled
    /\ dropDuplicates = {"App Name"}
    /\ Len(passed.rows) = 2
    /\ passed.rows[1].keys["App Name"] = passed.rows[2].keys["App Name"]
    /\ passed.rows[1].keys["Cluster Id"] = NaN
    /\ passed.rows[2].keys["Cluster Id"] = "c1"
    /\ Len(ret.rows) = 1
    /\ ret.rows[1].keys["Cluster Id"] = NaN
    /\ group_notes = GroupNote

-----------------------------------------------------------------------------
(* Properties of the cluster inference, checked under SpecInfer. *)

\* the rows of an application in the cluster information frame
RowsOfApp(app) == {i \in 1..Len(cluster_info_df) : cluster_info_df[i].AppID = app}

\* the row whose inference the dictionary holds for an application
DictRow(app) == cluster_info_df[LastRowOf(cluster_info_df, app)]

\* C14: through per-app inference an application whose cluster information
\* holds zero rows or more than one row gets no inferred cluster (None); only
\* an application with exactly one row can get an inferred cluster.
C14_OnlySingleRowAppsInferred ==
    pc = "inferred"
    => \A app \in DOMAIN clusters_per_app :
          Cardinality(RowsOfApp(app)) # 1 => clusters_per_app[app] = <<>>

\* C15: a declared worker type is used verbatim and the catalog is not
\* consulted for the row; otherwise the catalog is asked for
\* executors per node * cores per executor and its match is the worker type;
\* the driver type is the declared one or else the platform default; the
\* result is None when that product is NaN or the catalog has no match.
C15_WorkerTypeResolution ==
    pc = "inferred"
    => \A app \in DOMAIN clusters_per_app :
         LET i   == LastRowOf(cluster_info_df, app)
             row == cluster_info_df[i]
             res == clusters_per_app[app]
             \* the cluster construction succeeds for the resolved types
             built == /\ row.NumWorkerNodes # <<>>
                      /\ platform.ends \in {"ok", "catalog raises"}
         IN  /\ res # <<>> =>
                   res[1].DRIVER_NODE_TYPE =
                       IF row.DriverNodeType = NaN
                       THEN "\"" \o defaultCpuDriver \o "\""
                       ELSE "\"" \o row.DriverNodeType \o "\""
             /\ IF row.WorkerNodeType # NaN
                THEN /\ \A q \in catalog_queries : q[1] # i
                     /\ built <=> res # <<>>
                     /\ res # <<>> =>
                           res[1].WORKER_NODE_TYPE =
                               "\"" \o row.WorkerNodeType \o "\""
                ELSE IF row.CoresPerExecutor = <<>>
                            \/ row.NumExecutorsPerNode = <<>>
                THEN /\ res = <<>>
                     /\ \A q \in catalog_queries : q[1] # i
                ELSE LET cores == row.NumExecutorsPerNode[1]
                                      * row.CoresPerExecutor[1]
                     IN  /\ <<i, cores>> \in catalog_queries
                         /\ cores \notin platform.catalog => res = <<>>
                         /\ (cores \in platform.catalog /\ built
                                /\ platform.ends = "ok") <=> res # <<>>
                         /\ res # <<>> =>
                               res[1].WORKER_NODE_TYPE =
                                   "\"" \o InstanceName(cores) \o "\""

\* no declared types, 4 cores per executor, 2 executors per node and an 8-core
\* instance in the catalog: the worker type is that instance and the driver
\* type the platform default
C15_Witness ==
    /\ pc = "inferred"
    /\ Len(cluster_info_df) = 1
    /\ cluster_info_df[1].DriverNodeType = NaN
    /\ cluster_info_df[1].WorkerNodeType = NaN
    /\ cluster_info_df[1].CoresPerExecutor = <<4>>
    /\ cluster_info_df[1].NumExecutorsPerNode = <<2>>
    /\ 8 \in platform.catalog
    /\ catalog_queries = {<<1, 8>>}
    /\ clusters_per_app["app-1"] # <<>>
    /\ clusters_per_app["app-1"][1].WORKER_NODE_TYPE = "\"cores-8\""
    /\ clusters_per_app["app-1"][1].DRIVER_NODE_TYPE = "\"default-driver\""

\* C16: every cluster shape the inference produces has exactly one driver
\* node and a worker count that is a non-negative integer, equal to the
\* declared worker-node count of the row.
C16_OneDriverDeclaredWorkers ==
    pc = "inferred"
    => \A app \in DOMAIN clusters_per_app :
          clusters_per_app[app] # <<>>
          => /\ clusters_per_app[app][1].NUM_DRIVER_NODES = 1
             /\ clusters_per_app[app][1].NUM_WORKER_NODES \in Nat
             /\ DictRow(app).NumWorkerNodes =
                    <<clusters_per_app[app][1].NUM_WORKER_NODES>>

\* a row that declares 3 worker nodes got a cluster of one driver and 3 workers
C16_Witness ==
    /\ pc = "inferred"
    /\ cluster_info_df[1].NumWorkerNodes = <<3>>
    /\ clusters_per_app["app-1"] # <<>>
    /\ clusters_per_app["app-1"][1].NUM_DRIVER_NODES = 1
    /\ clusters_per_app["app-1"][1].NUM_WORKER_NODES = 3

\* C17: a failed inference never ends the batch: infer_cluster returns None
\* and does not raise, whatever the row (missing or unmatched node type,
\* unknown core count, missing worker count, a failing catalog or cluster
\* construction call), and the per-app inference returns an entry for every
\* application of the batch.
C17_InferenceNeverFatal ==
    /\ raised = ""
    /\ pc \in {"infer", "inferred"}
    /\ pc = "inferred" => DOMAIN clusters_per_app = AppIdsOf(cluster_info_df)

\* the first application has no worker count (int(NaN) raises inside
\* infer_cluster) and gets None; the second one still gets its cluster
C17_Witness ==
    /\ pc = "inferred"
    /\ Len(cluster_info_df) = 2
    /\ cluster_info_df[1].NumWorkerNodes = <<>>
    /\ cluster_info_df[1].WorkerNodeType # NaN
    /\ DOMAIN clusters_per_app = {"app-1", "app-2"}
    /\ clusters_per_app["app-1"] = <<>>
    /\ clusters_per_app["app-2"] # <<>>

-----------------------------------------------------------------------------
(* Properties of the summary, checked under SpecSummary. *)

\* the rows of the generated report summary with the given label
SummaryRowsOf(label) ==
    {i \in 1..Len(report_summary[1]) : report_summary[1][i].label = label}

\* the count the generated report summary shows under the given label
ShownCount(label) ==
    {report_summary[1][i].value : i \in SummaryRowsOf(label)}

\* C18: when the processed-apps table is empty, building the summary and
\* generating its report never raises, and the summary reports
\* total_apps = N (the number of rows of the total-apps table), a count of
\* processed applications of 0, a count of recommended applications of 0 and
\* no overall speedup statistic.
C18_EmptyProcessedApps ==
    (pc = "reported" /\ ~has_tools_processed_apps(summary[1]))
    => /\ raised = ""
       /\ get_stats_total_apps(summary[1]) = Len(total_apps)
       /\ get_stats_success_apps(summary[1]) = 0
       /\ get_stats_recommended_apps(summary[1]) = 0
       /\ report_summary # <<>> =>
             /\ ShownCount("Total applications") = {<<Len(total_apps)>>}
             /\ ShownCount("Processed applications") = {<<0>>}
             /\ ShownCount("Recommended applications") \subseteq {<<0>>}
             /\ SummaryRowsOf("Overall estimated speedup") = {}

\* C19: the overall speedup statistic of the summary is present exactly when
\* the recommended set is not empty and the sum of its GPU durations is not
\* zero, it then equals sum(cpu durations) / sum(gpu durations) over the
\* recommended apps, and in every other case it is left out, not shown with a
\* placeholder value.
C19_OverallSpeedupStatistic ==
    (pc = "reported" /\ report_summary # <<>> /\ ~summary[1].top_candidates_flag)
    => LET rec == IF summary[1].recommended_apps = <<>> THEN <<>>
                  ELSE summary[1].recommended_apps[1]
           cpu == ColumnSum(rec, "AppDuration")
           gpu == ColumnSum(rec, "EstimatedGPUDuration")
           computed == rec # <<>> /\ ~RIsZero(gpu)
       IN  /\ computed <=> SummaryRowsOf("Overall estimated speedup") # {}
           /\ computed =>
                 ShownCount("Overall estimated speedup")
                     = {format_float(RDiv(cpu, gpu))}

\* C20: the recommended filter retains exactly the rows of the grouped,
\* not yet reshaped frame whose recommendation is in the configured list, in
\* their order and with every value as it was, and what the reshape computes
\* afterwards changes neither the retained set nor its values.
C20_RecommendedFilter ==
    (pc \in {"recommended", "final", "summarized", "reported"}
        /\ recommended_apps # <<>>)
    => LET src  == IF pc = "recommended" THEN ret.rows ELSE passed.rows
           kept == {i \in 1..Len(src) :
                       src[i].Recommendation
                           \in {"Strongly Recommended", "Recommended"}}
           rec  == recommended_apps[1]
       IN  /\ Len(rec) = Cardinality(kept)
           /\ \A i \in kept : rec[Cardinality({j \in kept : j <= i})] = src[i]
           /\ pc \in {"summarized", "reported"} =>
                 summary[1].recommended_apps = recommended_apps

\* of two applications the recommended one is retained and keeps its GPU
\* duration of 50 while the per-job reshape recomputes it as 100 in the table
C20_Witness ==
    /\ pc = "reported"
    /\ gpuClusterShapeRecommendation = "job"
    /\ Len(ret.rows) = 2
    /\ ret.rows[1].Recommendation = "Recommended"
    /\ ret.rows[2].Recommendation = "Not Recommended"
    /\ ret.rows[1].EstimatedGPUDuration = Int2Rat(100)
    /\ recommended_apps # <<>>
    /\ Len(recommended_apps[1]) = 1
    /\ recommended_apps[1][1].AppID = "app-1"
    /\ recommended_apps[1][1].EstimatedGPUDuration = Int2Rat(50)

-----------------------------------------------------------------------------
(* Aggregation, checked under SpecGroup. *)

\* the columns of groupColumns.aggregate
AggregateColumns ==
    {"AppDuration", "EstimatedGPUDuration", "SQLStageDurationsSum",
     "UnsupportedDuration"}

\* the rows of the frame the stage was given that share the group keys of
\* its row i
SameKeys(i) ==
    {j \in 1..Len(passed.rows) :
        \A c \in groupColumns.keys \cap passed.cols :
            passed.rows[j].keys[c] = passed.rows[i].keys[c]}

\* C26: after aggregation every row of a group holds the group's aggregate
\* (the mean over the rows of the group) of each configured aggregate column:
\* the rows of a group agree on it, the value times the size of the group is
\* the sum of the column over the group, and a row that survives the
\* deduplication carries the aggregate of its group.
C26_GroupAggregates ==
    (pc \in {"grouped", "grouped2"} /\ groupColumns.enabled)
    => /\ Len(arg.rows) = Len(passed.rows)
       /\ \A i \in 1..Len(arg.rows) : \A col \in AggregateColumns :
            /\ RMul(arg.rows[i][col], Int2Rat(Cardinality(SameKeys(i))))
                 = RSum([j \in 1..Len(passed.rows) |->
                           IF j \in SameKeys(i) THEN passed.rows[j][col]
                           ELSE Int2Rat(0)])
            /\ \A j \in SameKeys(i) : arg.rows[j][col] = arg.rows[i][col]
       /\ \A k \in 1..Len(ret.rows) : \E i \in 1..Len(arg.rows) :
            /\ arg.rows[i].keys = ret.rows[k].keys
            /\ \A col \in AggregateColumns : ret.rows[k][col] = arg.rows[i][col]

\* two rows of one name and cluster id with the CPU durations 100 and 200:
\* both hold the mean 150 and one row survives the deduplication
C26_Witness ==
    /\ pc = "grouped" /\ groupColumns.enabled
    /\ Len(passed.rows) = 2
    /\ passed.rows[1].keys = passed.rows[2].keys
    /\ passed.rows[1].AppDuration = Int2Rat(100)
    /\ passed.rows[2].AppDuration = Int2Rat(200)
    /\ arg.rows[1].AppDuration = Int2Rat(150)
    /\ arg.rows[2].AppDuration = Int2Rat(150)
    /\ Len(ret.rows) = 1
    /\ ret.rows[1].AppDuration = Int2Rat(150)

-----------------------------------------------------------------------------
(* The reshape recomputation in binary64 arithmetic, checked under SpecFloat. *)

\* C29: for a row with a positive integer CPU duration and a speedup >= 1.0,
\* a declared worker count > 0 and a scale factor > 0, the recomputation of
\* the per-job or per-cluster reshape yields an Estimated GPU Duration that
\* is at most the CPU duration, and therefore a recomputed speedup >= 1.0.
C29_RecomputedDurationAtMostCpu ==
    (pc = "reshaped" /\ NonStandardApplied /\ LastFlag = TRUE
        /\ gpuClusterProxy[1] > 0 /\ ~RLeq(scale_f, Int2Rat(0)))
    => \A i \in 1..Len(ret.rows) :
          (/\ passed.rows[i].AppDuration[2] = 1
           /\ passed.rows[i].AppDuration[1] > 0
           /\ RGeqOne(passed.rows[i].EstimatedGPUSpeedup))
          => /\ RLeq(ret.rows[i].EstimatedGPUDuration,
                     passed.rows[i].AppDuration)
             /\ RGeqOne(ret.rows[i].EstimatedGPUSpeedup)

-----------------------------------------------------------------------------
(* The summary object after its assembly, checked under SpecSummary. *)

-----------------------------------------------------------------------------
(* The inference of the CPU and GPU clusters, checked under SpecClusters. *)

\* the GPU inference of the cluster information step ran
GpuInferenceRan ==
    /\ pc = "start"
    /\ cpuClusterProxy = <<>> /\ cluster_inference_supported
    /\ gpus_per_node_col \in cluster_info_cols

\* C27: when the GPU cluster is inferred, the executors per node of every row
\* are replaced by the recommended GPUs per node before the inference reads
\* them: the core count of a GPU worker-type lookup is
\* recommended_gpus_per_node * cores_per_executor of its row, never the CPU
\* executors per node times the cores, and a row with no recommended worker
\* type and both values present is looked up with that count.
C27_GpuLookupUsesGpusPerNode ==
    GpuInferenceRan
    => /\ \A q \in gpu_catalog_queries :
            LET row == cluster_info_df[q[1]]
            IN  /\ row.RecommendedWorkerNodeType = NaN
                /\ row.RecommendedNumGPUsPerNode # <<>>
                /\ row.CoresPerExecutor # <<>>
                /\ q[2] = row.RecommendedNumGPUsPerNode[1]
                            * row.CoresPerExecutor[1]
       /\ \A i \in 1..Len(cluster_info_df) :
            LET row == cluster_info_df[i]
            IN  (/\ row.RecommendedWorkerNodeType = NaN
                 /\ row.RecommendedNumGPUsPerNode # <<>>
                 /\ row.CoresPerExecutor # <<>>)
                => <<i, row.RecommendedNumGPUsPerNode[1]
                          * row.CoresPerExecutor[1]>> \in gpu_catalog_queries

\* a row of 4 executors per node with 4 cores each and 2 recommended GPUs per
\* node: the CPU inference looks up 16 cores, the GPU inference 8
C27_Witness ==
    /\ GpuInferenceRan
    /\ Len(cluster_info_df) = 1
    /\ cluster_info_df[1].NumExecutorsPerNode = <<4>>
    /\ cluster_info_df[1].CoresPerExecutor = <<4>>
    /\ cluster_info_df[1].RecommendedNumGPUsPerNode = <<2>>
    /\ catalog_queries = {<<1, 16>>}
    /\ gpu_catalog_queries = {<<1, 8>>}
    /\ gpuClusterInfoPerApp # <<>>

\* C30: after the cluster information step has finished, normally or through
\* its caught exception, the per-app CPU map and the per-app GPU map of the
\* context are both set or both unset.
C30_BothMapsOrNone ==
    pc = "start"
    => ((cpuClusterInfoPerApp = <<>>) <=> (gpuClusterInfoPerApp = <<>>))

-----------------------------------------------------------------------------
(* Properties of a whole run, checked under SpecOutput. *)

\* C21: a configuration that enables the top-candidates filter together with
\* a non-default cluster-reshape policy is rejected by the validation of the
\* arguments: no run gets past the arguments with both enabled.
C21_FilterExcludesReshape ==
    (filterApps = "top_candidates" /\ recommendation_is_non_standard)
    => pc = "args"

\* C23: the stages run in the order inference, reshape, grouping,
\* categorization, filtering, assembly: the reshape stage has completed when
\* grouping, categorization and the recommended filter have read the table.
C23_ReshapeBeforeGrouping ==
    pc \in {"grouped", "categorized", "recommended"} => per_row_flag # <<>>

\* C24: in the final table handed to the summary every row has one speedup
\* category label, the categorizer's result for the final Estimated GPU
\* Speedup of the row.
C24_CategoryMatchesFinalSpeedup ==
    (pc \in {"summarized", "reported"} /\ summary[1].tools_processed_apps # <<>>)
    => \A i \in 1..Len(summary[1].tools_processed_apps[1]) :
          LET row == summary[1].tools_processed_apps[1][i]
          IN  row.SpeedupCategory = speedup_category(row.EstimatedGPUSpeedup)

\* C25: in a run in which the per-cluster reshape is applied, the notes of
\* the summary assembled in that run include the cluster-shape note with the
\* worker count that run's reshape chose.
C25_ClusterShapeNoteInSummary ==
    (pc \in {"summarized", "reported"} /\ NonStandardApplied
        /\ gpuClusterShapeRecommendation = "cluster"
        /\ clusterShapeNote # <<>>)
    => \E k \in 1..Len(summary[1].comments) :
          summary[1].comments[k] = clusterShapeNote

\* C22: a failing optional collaborator never aborts the run: when the
\* prediction model raises or returns no predictions, or the statistics
\* report raises, the step ends normally, the run goes on to the next step
\* and the application table passed on is the table the step was given,
\* with its default estimates unchanged.
C22_CollaboratorFailureDowngraded ==
    [][/\ (pc = "output" /\ estimation.xgboostEnabled
              /\ (estimation.predict = "raises" \/ estimation.predictions = <<>>))
          => (pc' = "predicted" /\ ret' = ret /\ raised' = "")
       /\ (pc = "start" /\ ret.rows # <<>> /\ estimation.stats = "raises")
          => (pc' = "pruned" /\ ret' = ret /\ raised' = "")]_vars

\* a run in which the prediction model and the statistics report both raised
\* was logged twice and went on to its report, the estimates as they were read
C22_Witness ==
    /\ pc = "reported"
    /\ estimation.xgboostEnabled /\ estimation.predict = "raises"
    /\ estimation.stats = "raises"
    /\ logged = {"XGBoost", "statistics report"}
    /\ raised = ""
    /\ summary[1].tools_processed_apps # <<>>
    /\ Len(summary[1].tools_processed_apps[1]) = 1
    /\ summary[1].tools_processed_apps[1][1].EstimatedGPUDuration = Int2Rat(50)

====
